---- MODULE Spec2Model ----
(***************************************************************************)
(* graph-crdt: a delta-state graph CRDT.                                   *)
(*                                                                         *)
(* The module models                                                       *)
(*   - the conflict resolver of src/union (JSON.stringify of both values,  *)
(*     compared as JavaScript strings),                                    *)
(*   - Node.merge with its update/history deltas and its events,           *)
(*   - Entity.setMetadata and the in-process write of a plain mapping,     *)
(*   - Graph.merge over replicas that exchange delta graphs.               *)
(*                                                                         *)
(* JavaScript strings are sequences of UTF-16 code units, written here as  *)
(* tuples of character codes.  A JavaScript object is a function whose     *)
(* DOMAIN is the set of its own keys; the order in which keys were         *)
(* inserted is kept only where the code can observe it through a value     *)
(* (the members of a JSON object value, which JSON.stringify prints in     *)
(* insertion order).                                                       *)
(***************************************************************************)
EXTENDS Integers, Sequences, FiniteSets, TLC

VARIABLES
    graphs,     \* graphs[r]: the Graph held by replica r (uid -> Node)
    applied,    \* applied[r]: the delta graphs replica r has applied so far
    inp,        \* arguments of the call under study (pure-function specifications)
    out,        \* what the last call returned / emitted
    pc,         \* which call was made last
    heap        \* the node objects a graph and its caller hold (SpecHeap)

vars == <<graphs, applied, inp, out, pc, heap>>

----------------------------------------------------------------------------
(* Bounds *)

\* Largest Lamport state a field reaches in the model.
MaxState == 2

\* Largest number of node objects the caller of SpecHeap passes to the graph.
MaxIncoming == 2

\* Largest number of distinct delta graphs in circulation between the replicas.
MaxDeltas == 2

\* Longest sequence of calls made on one node.
MaxCalls == 3

\* Most local writes made while two replicas echo their updates.
MaxWrites == 2

\* The count of hops of a forwarded graph stops at this number.
MaxHops == 2

----------------------------------------------------------------------------
(* JavaScript evaluates an argument once, before the call *)

\* F applied to the value of x.
With(x, F(_)) == CHOOSE r \in {F(v) : v \in {x}} : TRUE

----------------------------------------------------------------------------
(* JSON values *)

\* A JSON value: t is the JSON type; b, n, s carry a boolean, an integer or
\* the code units of a string; kv carries the members of an array or of an
\* object in insertion order (k is the key, empty for array items).
JNull == [t |-> "null", b |-> FALSE, n |-> 0, s |-> <<>>, kv |-> <<>>]

JBool(x) == [t |-> "bool", b |-> x, n |-> 0, s |-> <<>>, kv |-> <<>>]

JNum(x) == [t |-> "num", b |-> FALSE, n |-> x, s |-> <<>>, kv |-> <<>>]

JStr(x) == [t |-> "str", b |-> FALSE, n |-> 0, s |-> x, kv |-> <<>>]

JArr(items) ==
    [t |-> "arr", b |-> FALSE, n |-> 0, s |-> <<>>,
     kv |-> [i \in 1..Len(items) |-> [k |-> <<>>, v |-> items[i]]]]

JObj(members) == [t |-> "obj", b |-> FALSE, n |-> 0, s |-> <<>>, kv |-> members]

\* The JavaScript numbers JSON has no text for: s carries the name of the
\* number (Infinity, -Infinity, NaN).
JNonFinite(name) == [t |-> "nonfinite", b |-> FALSE, n |-> 0, s |-> name, kv |-> <<>>]

\* The decimal digits of a natural number.
RECURSIVE Digits(_)
Digits(x) == IF x < 10 THEN <<48 + x>> ELSE Digits(x \div 10) \o <<48 + (x % 10)>>

\* Number::toString for integers: a minus sign, then the digits.
NumberToString(x) == IF x < 0 THEN <<45>> \o Digits(0 - x) ELSE Digits(x)

\* JSON string escaping of the quotation mark and of the backslash.
RECURSIVE Escape(_)
Escape(s) ==
    IF s = <<>> THEN <<>>
    ELSE (IF Head(s) \in {34, 92} THEN <<92, Head(s)>> ELSE <<Head(s)>>)
         \o Escape(Tail(s))

QuoteJSONString(s) == <<34>> \o Escape(s) \o <<34>>

\* JSON.stringify: null, true, false, numbers, "strings", [items] and
\* {"key":value} members, the members in insertion order, no white space.
\* A number that is not finite is written as null.
RECURSIVE JSONstringify(_)
RECURSIVE StringifyMembers(_, _)
StringifyMembers(members, isObject) ==
    IF members = <<>> THEN <<>>
    ELSE (IF isObject THEN QuoteJSONString(Head(members).k) \o <<58>> ELSE <<>>)
         \o JSONstringify(Head(members).v)
         \o (IF Tail(members) = <<>> THEN <<>> ELSE <<44>>)
         \o StringifyMembers(Tail(members), isObject)

JSONstringify(v) ==
    CASE v.t = "null" -> <<110, 117, 108, 108>>
      [] v.t = "bool" -> IF v.b THEN <<116, 114, 117, 101>>
                                ELSE <<102, 97, 108, 115, 101>>
      [] v.t = "num"  -> NumberToString(v.n)
      [] v.t = "nonfinite" -> <<110, 117, 108, 108>>
      [] v.t = "str"  -> QuoteJSONString(v.s)
      [] v.t = "arr"  -> <<91>> \o StringifyMembers(v.kv, FALSE) \o <<93>>
      [] v.t = "obj"  -> <<123>> \o StringifyMembers(v.kv, TRUE) \o <<125>>

\* The JavaScript relational comparison s > t on strings: code unit by code
\* unit, a proper prefix being the smaller string.
RECURSIVE StrGreater(_, _)
StrGreater(s, t) ==
    IF s = <<>> THEN FALSE
    ELSE IF t = <<>> THEN TRUE
    ELSE IF Head(s) = Head(t) THEN StrGreater(Tail(s), Tail(t))
    ELSE Head(s) > Head(t)

----------------------------------------------------------------------------
(* union: the conflict resolver *)

\* The test of the resolver with the comparison turned around: the smaller
\* string wins.
firstWinsWhenLesser(field1, field2) ==
    LET string == [current |-> JSONstringify(field1.value),
                   update  |-> JSONstringify(field2.value)]
        equal == (string.current = string.update)
        greater == StrGreater(string.update, string.current)
    IN  equal \/ greater

\* The test of the resolver without the equality: the update wins a tie.
firstWinsUnlessTie(field1, field2) ==
    LET string == [current |-> JSONstringify(field1.value),
                   update  |-> JSONstringify(field2.value)]
        greater == StrGreater(string.current, string.update)
    IN  greater

\* `equal || greater`: whether the resolver returns its first argument.
firstWins(field1, field2) ==
    LET string == [current |-> JSONstringify(field1.value),
                   update  |-> JSONstringify(field2.value)]
        equal == (string.current = string.update)
        greater == StrGreater(string.current, string.update)
    IN  equal \/ greater

\* conflict(field1, field2): the field metadata that wins at equal states.
conflict(field1, field2) == IF firstWins(field1, field2) THEN field1 ELSE field2

----------------------------------------------------------------------------
(* Inputs of the resolver *)

\* "5", "abc", "abd"
StrFive == <<53>>
StrAbc == <<97, 98, 99>>
StrAbd == <<97, 98, 100>>
\* "edge", "a", "b"
KeyEdge == <<101, 100, 103, 101>>
KeyA == <<97>>
KeyB == <<98>>

\* Valid JSON values of every type: scalars whose order as strings differs
\* from their order as numbers (9 and 10), a negative number, a number and
\* the string of its text, an array, edge objects, and one object written
\* with its two keys in either order.
JsonValues ==
    { JNull, JBool(TRUE), JBool(FALSE),
      JNum(5), JNum(9), JNum(10), JNum(0 - 1),
      JStr(StrFive), JStr(StrAbc), JStr(StrAbd),
      JArr(<<JNum(5)>>),
      JObj(<<[k |-> KeyEdge, v |-> JStr(StrAbc)]>>),
      JObj(<<[k |-> KeyEdge, v |-> JStr(StrAbd)]>>),
      JObj(<<[k |-> KeyA, v |-> JNum(1)], [k |-> KeyB, v |-> JNum(2)]>>),
      JObj(<<[k |-> KeyB, v |-> JNum(2)], [k |-> KeyA, v |-> JNum(1)]>>) }

\* Additional metadata of a field: the linked-list pointer `prev`, "none"
\* when the record has no such key.
Extras == {"none", "p", "q"}

\* Field metadata: { value, state, ...extras }.
MetaOf(v, s, e) == [value |-> v, state |-> s, prev |-> e]

NoOut == [result |-> MetaOf(JNull, 0, "none"), inverse |-> MetaOf(JNull, 0, "none")]

InitConflict ==
    /\ \E s \in 1..MaxState, v1 \in JsonValues, v2 \in JsonValues,
          e1 \in Extras, e2 \in Extras :
            inp = [current |-> MetaOf(v1, s, e1), update |-> MetaOf(v2, s, e2)]
    /\ out = NoOut
    /\ pc = "start"
    /\ graphs = <<>>
    /\ applied = <<>>
    /\ heap = <<>>

\* The resolver is called in both argument orders.
Conflict ==
    /\ pc = "start"
    /\ out' = [result  |-> conflict(inp.current, inp.update),
               inverse |-> conflict(inp.update, inp.current)]
    /\ pc' = "conflict"
    /\ UNCHANGED <<graphs, applied, inp, heap>>

NextConflict == Conflict

SpecConflict == InitConflict /\ [][NextConflict]_vars

----------------------------------------------------------------------------
(* Node *)

Uids == {"u1", "u2"}

Fields == {"x", "y"}

\* The order in which `for (const key in object)` visits the fields.
FieldOrder == <<"x", "y">>

\* An assignment that replaces the object by one holding the new key alone.
PutAlone(object, key, val) == (key :> val)

\* A JavaScript object with one more key (an existing key is overwritten).
Put(object, key, val) == (key :> val) @@ object

\* new Node({ uid }): the node container holds '@object': { uid } and no field.
NewNode(uid) == [uid |-> uid, obj |-> <<>>]

\* A node made with `new Node()`, no uid handed over: the uid is a fresh one,
\* another than the receiver's.
newOfFreshUid(self) == NewNode(CHOOSE uid \in Uids : uid # self.uid)

\* node.new(): an empty node with the same uid.
new(self) == NewNode(self.uid)

\* meta(field) is the stored record, or null: HasField tells the two apart.
HasField(self, field) == field \in DOMAIN self.obj

meta(self, field) == self.obj[field]

\* state(field): the field's Lamport state, 0 when the field is absent.
state(self, field) == IF HasField(self, field) THEN meta(self, field).state ELSE 0

\* value(field) of a present field.
value(self, field) == meta(self, field).value

\* The node's iterator: its fields in key order, '@object' left out.
Keys(self) == SelectSeq(FieldOrder, LAMBDA field : HasField(self, field))

\* snapshot(): field -> value.
snapshot(self) == [field \in DOMAIN self.obj |-> value(self, field)]

\* Emitter events, in the order they were emitted.
Event(name, args) == [name |-> name, args |-> args]

\* The `conflict` event with its arguments the other way round.
ConflictEventLoserFirst(update, current) == Event("conflict", <<current, update>>)

\* `this.emit('conflict', update, current)`
ConflictEvent(update, current) == Event("conflict", <<update, current>>)

\* The test that lets a field of the incoming node through, without the
\* comparison of the states: stale fields are applied as well.
ShouldApplyAlways(st, forceUpdate) == TRUE

\* `state.current < state.incoming || forceUpdate`
ShouldApply(st, forceUpdate) == st.current < st.incoming \/ forceUpdate

\* The tracking of a change that leaves the winner of a conflict out of the
\* update delta.
TrackChangeNewerOnly(changes, field, current, update, has, applies, forceUpdate) ==
    IF applies
    THEN [history |-> IF has
                      THEN [changes.history EXCEPT !.obj = Put(@, field, current)]
                      ELSE changes.history,
          update  |-> IF forceUpdate THEN changes.update
                      ELSE [changes.update EXCEPT !.obj = Put(@, field, update)]]
    ELSE [changes EXCEPT !.history.obj = Put(@, field, update)]

\* The tracking of a change that files the record that was overwritten, where
\* there is one, in the update delta too.
TrackChangeOverwritten(changes, field, current, update, has, applies, forceUpdate) ==
    IF applies
    THEN [history |-> IF has
                      THEN [changes.history EXCEPT !.obj = Put(@, field, current)]
                      ELSE changes.history,
          update  |-> [changes.update EXCEPT !.obj =
                            Put(@, field, IF has THEN current ELSE update)]]
    ELSE [changes EXCEPT !.history.obj = Put(@, field, update)]

\* What the loop writes into `changes` for a field that was not skipped: an
\* applied field goes to the update delta and the record it overwrote, if
\* any, to the history delta; a stale field goes to the history delta.
TrackChange(changes, field, current, update, has, applies, forceUpdate) ==
    IF applies
    THEN [history |-> IF has
                      THEN [changes.history EXCEPT !.obj = Put(@, field, current)]
                      ELSE changes.history,
          update  |-> [changes.update EXCEPT !.obj = Put(@, field, update)]]
    ELSE [changes EXCEPT !.history.obj = Put(@, field, update)]

\* One pass of the merge loop of Node.merge for `field`.  acc.self is `this`,
\* acc.changes the deltas being built, acc.emitted the events so far and
\* acc.throwing the events whose listener throws; acc.seen holds, for each
\* event emitted, the receiver as its listeners find it.  acc.error is set when
\* conflict() is handed a null record and throws, or when the `conflict`
\* listener throws: emit() runs before the field is tracked and assigned.
MergeField(acc, incoming, field) ==
    LET self == acc.self
        has == HasField(self, field)
        update == meta(incoming, field)
        st == [incoming |-> state(incoming, field), current |-> state(self, field)]
        isConflict == (st.current = st.incoming)
        throws == isConflict /\ ~has
        current == meta(self, field)
        \* `winner === current` compares references: it holds exactly when
        \* conflict(current, update) returned its first argument.
        winnerIsCurrent == firstWins(current, update)
        forceUpdate == isConflict /\ ~winnerIsCurrent
        applies == ShouldApply(st, forceUpdate)
    IN  IF acc.error # "none" THEN acc
        ELSE IF throws THEN [acc EXCEPT !.error = "TypeError"]
        ELSE IF isConflict /\ winnerIsCurrent THEN acc
        ELSE IF forceUpdate /\ "conflict" \in acc.throwing
        THEN [acc EXCEPT !.emitted = Append(@, ConflictEvent(update, current)),
                         !.seen = Append(@, self),
                         !.error = "Error"]
        ELSE [self    |-> IF applies
                          THEN [self EXCEPT !.obj = Put(@, field, update)]
                          ELSE self,
              changes |-> TrackChange(acc.changes, field, current, update,
                                      has, applies, forceUpdate),
              emitted |-> IF forceUpdate
                          THEN Append(acc.emitted, ConflictEvent(update, current))
                          ELSE acc.emitted,
              seen    |-> IF forceUpdate THEN Append(acc.seen, self) ELSE acc.seen,
              throwing |-> acc.throwing,
              error   |-> "none"]

RECURSIVE MergeFields(_, _, _)

\* The merge loop leaving at the first field on which the receiver wins an
\* equal-state conflict (`break` where the code has `continue`).
MergeFieldsBreak(acc, incoming, keys) ==
    LET field == Head(keys)
        keeps == /\ HasField(acc.self, field)
                 /\ state(acc.self, field) = state(incoming, field)
                 /\ firstWins(meta(acc.self, field), meta(incoming, field))
    IN  IF keys = <<>> THEN acc
        ELSE IF keeps THEN acc
        ELSE With(MergeField(acc, incoming, field),
                  LAMBDA next : MergeFields(next, incoming, Tail(keys)))

\* The merge loop: `for (const [field] of incoming)`.
MergeFields(acc, incoming, keys) ==
    IF keys = <<>> THEN acc
    ELSE With(MergeField(acc, incoming, Head(keys)),
              LAMBDA next : MergeFields(next, incoming, Tail(keys)))

\* The end of a merge that emits both events whatever the deltas hold.
EmitChangesAlways(looped) ==
    [looped EXCEPT !.emitted = @ \o <<Event("history", <<looped.changes.history>>),
                                       Event("update", <<looped.changes.update>>)>>,
                   !.seen = @ \o <<looped.self, looped.self>>]

\* The end of Node.merge: `history` is emitted when the history delta has a
\* field, then `update` when the update delta has one.  A listener that
\* throws ends the call there.
EmitChanges(looped) ==
    LET changed == DOMAIN looped.changes.update.obj # {}
        overwritten == DOMAIN looped.changes.history.obj # {}
        afterHistory == IF overwritten
                        THEN Append(looped.emitted, Event("history", <<looped.changes.history>>))
                        ELSE looped.emitted
        afterUpdate == IF changed
                       THEN Append(afterHistory, Event("update", <<looped.changes.update>>))
                       ELSE afterHistory
        \* The listeners of both events find the receiver as the loop left it.
        seenBy(emitted) ==
            looped.seen \o [i \in 1..(Len(emitted) - Len(looped.emitted)) |-> looped.self]
    IN  IF looped.error # "none" THEN looped
        ELSE IF overwritten /\ "history" \in looped.throwing
        THEN [looped EXCEPT !.emitted = afterHistory, !.seen = seenBy(afterHistory),
                            !.error = "Error"]
        ELSE IF changed /\ "update" \in looped.throwing
        THEN [looped EXCEPT !.emitted = afterUpdate, !.seen = seenBy(afterUpdate),
                            !.error = "Error"]
        ELSE [looped EXCEPT !.emitted = afterUpdate, !.seen = seenBy(afterUpdate)]

\* A merge that emits its events before it assigns any field: every listener
\* finds the receiver as it was before the call.
mergeEmittingFirst(self, incoming, throwing) ==
    With(<<self, incoming>>, LAMBDA arg :
        With(EmitChanges(MergeFields([self     |-> arg[1],
                                      changes  |-> [history |-> new(arg[1]),
                                                    update |-> new(arg[1])],
                                      emitted  |-> <<>>,
                                      seen     |-> <<>>,
                                      throwing |-> throwing,
                                      error    |-> "none"],
                                     arg[2], Keys(arg[2]))),
             LAMBDA d : [d EXCEPT !.seen = [i \in 1..Len(d.seen) |-> arg[1]]]))

\* Node.merge(incoming) for an incoming Node, on a receiver whose listeners
\* for the events in `throwing` throw: the receiver after the call, the
\* changes (returned when no error is thrown), the events emitted, what
\* their listeners saw and the error thrown, if any.
mergeListening(self, incoming, throwing) ==
    With(<<self, incoming>>, LAMBDA arg :
        With(MergeFields([self     |-> arg[1],
                          changes  |-> [history |-> new(arg[1]), update |-> new(arg[1])],
                          emitted  |-> <<>>,
                          seen     |-> <<>>,
                          throwing |-> throwing,
                          error    |-> "none"],
                         arg[2], Keys(arg[2])),
             EmitChanges))

\* Node.merge(incoming) for an incoming Node, no listener throwing.
merge(self, incoming) == mergeListening(self, incoming, {})

\* The plain mapping turned into a node at the receiver's own states.
getIncrementedStateSame(current, update) ==
    [new(current) EXCEPT !.obj =
        [field \in DOMAIN update |->
            [value |-> update[field], state |-> state(current, field), prev |-> "none"]]]

\* getIncrementedState(current, update): a plain mapping field -> value
\* becomes a node whose fields carry the receiver's state + 1.
getIncrementedState(current, update) ==
    [new(current) EXCEPT !.obj =
        [field \in DOMAIN update |->
            [value |-> update[field], state |-> state(current, field) + 1, prev |-> "none"]]]

\* Node.merge(incoming) for a plain mapping.
mergePlain(self, incoming) == merge(self, getIncrementedState(self, incoming))

\* setMetadata writing the metadata with the state it came with.
setMetadataKeepingState(self, field, metadata) ==
    merge(self, [new(self) EXCEPT !.obj = (field :> metadata)])

\* Entity.setMetadata(field, metadata): { ...metadata, state } merged in.
setMetadata(self, field, metadata) ==
    LET st == state(self, field) + 1
        update == [new(self) EXCEPT !.obj = (field :> [metadata EXCEPT !.state = st])]
    IN  merge(self, update)

\* The pass that leaves the overwritten record out of the history delta.
DeltaFieldNoHistory(acc, field) ==
    LET metadata == meta(acc.update, field)
        st == [current |-> state(acc.self, field), update |-> state(acc.update, field)]
    IN  IF st.update > st.current
        THEN [acc EXCEPT !.changes.update.obj = Put(@, field, metadata)]
        ELSE acc

\* The pass that files the loser of a conflict in the update delta.
DeltaFieldLoserUpdates(acc, field) ==
    LET metadata == meta(acc.update, field)
        st == [current |-> state(acc.self, field), update |-> state(acc.update, field)]
    IN  IF st.update = st.current /\ HasField(acc.self, field)
        THEN [acc EXCEPT !.changes.update.obj = Put(@, field, meta(acc.self, field)),
                         !.changes.history.obj = Put(@, field, metadata)]
        ELSE acc

\* The pass that assigns the field to the receiver as it goes.
DeltaFieldApplying(acc, field) ==
    [acc EXCEPT !.self.obj = Put(@, field, meta(acc.update, field))]

\* One pass of the loop of Entity.delta over the fields of the update.
\* acc.self is `this` and acc.update the argument, neither of which the loop
\* assigns to; acc.changes is the delta being built and acc.emitted the
\* events emitted, none.  acc.error is set when conflict() is handed a null
\* record and throws.
DeltaField(acc, field) ==
    LET self == acc.self
        metadata == meta(acc.update, field)
        st == [current |-> state(self, field), update |-> state(acc.update, field)]
        current == meta(self, field)
        \* `winner !== current` compares references: it fails exactly when
        \* conflict(current, metadata) returned its first argument.
        winnerIsCurrent == firstWins(current, metadata)
    IN  IF acc.error # "none" THEN acc
        ELSE IF st.update > st.current
        THEN [acc EXCEPT !.changes.update.obj = Put(@, field, metadata),
                         !.changes.history.obj =
                            IF st.current # 0 THEN Put(@, field, current) ELSE @]
        ELSE IF st.update < st.current
        THEN [acc EXCEPT !.changes.history.obj = Put(@, field, metadata)]
        ELSE IF ~HasField(self, field) THEN [acc EXCEPT !.error = "TypeError"]
        ELSE IF winnerIsCurrent THEN acc
        ELSE [acc EXCEPT !.changes.update.obj = Put(@, field, metadata),
                         !.changes.history.obj = Put(@, field, current)]

\* The loop of Entity.delta: `Object.keys(data).forEach(...)`.
RECURSIVE DeltaFields(_, _)
DeltaFields(acc, keys) ==
    IF keys = <<>> THEN acc
    ELSE With(DeltaField(acc, Head(keys)),
              LAMBDA next : DeltaFields(next, Tail(keys)))

\* Entity.delta(update): the receiver and the update after the call, the
\* returned delta, the events emitted and the error thrown, if any.
delta(self, update) ==
    With(<<self, update>>, LAMBDA arg :
        DeltaFields([self    |-> arg[1],
                     update  |-> arg[2],
                     changes |-> [update |-> new(arg[1]), history |-> new(arg[1])],
                     emitted |-> <<>>,
                     error   |-> "none"],
                    Keys(arg[2])))

\* The test of rebase that leaves a field at the target's state alone.
ShouldBumpWhenOlder(self, target, key) == state(target, key) > state(self, key)

\* `target.state(key) >= this.state(key)`
ShouldBump(self, target, key) == state(target, key) >= state(self, key)

\* The bumped state without the increment.
BumpedStateSame(target, key) == state(target, key)

\* `state: target.state(key) + 1`
BumpedState(target, key) == state(target, key) + 1

\* The loop of rebase: `for (const [key] of this)`, a field that is not newer
\* than the target's is stored again as { ...this.meta(key), state }.
RECURSIVE BumpFields(_, _, _, _)
BumpFields(rebased, self, target, keys) ==
    IF keys = <<>> THEN rebased
    ELSE LET key == Head(keys)
             bumped == [meta(self, key) EXCEPT !.state = BumpedState(target, key)]
         IN  With(IF ShouldBump(self, target, key)
                  THEN [rebased EXCEPT !.obj = Put(@, key, bumped)]
                  ELSE rebased,
                  LAMBDA next : BumpFields(next, self, target, Tail(keys)))

\* rebase(target): a new node that merged the target, then `this`, and whose
\* fields from `this` are then bumped above the target's.
rebase(self, target) ==
    With(<<self, target>>, LAMBDA arg :
        With(merge(new(arg[1]), arg[2]), LAMBDA first :
            With(merge(first.self, arg[1]), LAMBDA second :
                BumpFields(second.self, arg[1], arg[2], Keys(arg[1])))))

\* Whether rebase(target) ends with an error: one of its two merges throws.
rebaseThrows(self, target) ==
    With(merge(new(self), target), LAMBDA first :
        \/ first.error # "none"
        \/ merge(first.self, self).error # "none")

\* The overlap that takes the shared fields from the target.
overlapFromTarget(self, target) ==
    [new(self) EXCEPT !.obj =
        [field \in {k \in DOMAIN self.obj : state(self, k) # 0 /\ state(target, k) # 0}
            |-> meta(target, field)]]

\* overlap(target): a new node with the fields of `this` for which both
\* `this.state(field)` and `target.state(field)` are non-zero.
overlap(self, target) ==
    [new(self) EXCEPT !.obj =
        [field \in {k \in DOMAIN self.obj : state(self, k) # 0 /\ state(target, k) # 0}
            |-> meta(self, field)]]

----------------------------------------------------------------------------
(* Node.merge on drawn nodes *)

\* Two values that conflict at equal states: the string "5" and the number 5.
NodeValues == {JStr(StrFive), JNum(5)}

NodeMetas == {MetaOf(v, s, "none") : v \in NodeValues, s \in 1..MaxState}

\* Every node with the given uid whose fields carry the given metadata.
NodesOf(uid, metas) ==
    UNION {{[uid |-> uid, obj |-> o] : o \in [present -> metas]} : present \in SUBSET Fields}

InitNode ==
    /\ \E n \in NodesOf("u1", NodeMetas), a \in NodesOf("u1", NodeMetas),
          b \in NodesOf("u1", NodeMetas) :
            inp = [n |-> n, a |-> a, b |-> b]
    /\ out = <<>>
    /\ pc = "start"
    /\ graphs = <<>>
    /\ applied = <<>>
    /\ heap = <<>>

\* copy(n).merge(a).merge(b) against copy(n).merge(b).merge(a).
MergeBothOrders ==
    /\ pc = "start"
    /\ \E na \in {merge(inp.n, inp.a)}, nb \in {merge(inp.n, inp.b)} :
        \E nab \in {merge(na.self, inp.b)}, nba \in {merge(nb.self, inp.a)} :
            out' = [ab |-> nab.self, ba |-> nba.self]
    /\ pc' = "orders"
    /\ UNCHANGED <<graphs, applied, inp, heap>>

\* n.merge(a); n.merge(a).
MergeTwice ==
    /\ pc = "start"
    /\ \E first \in {merge(inp.n, inp.a)} :
        \E second \in {merge(first.self, inp.a)} :
            out' = [once |-> first.self, first |-> first, second |-> second]
    /\ pc' = "twice"
    /\ UNCHANGED <<graphs, applied, inp, heap>>

\* n.merge(a).merge(b) against n.merge(a.merge(b)).
MergeGrouped ==
    /\ pc = "start"
    /\ \E na \in {merge(inp.n, inp.a)}, ab \in {merge(inp.a, inp.b)} :
        \E left \in {merge(na.self, inp.b)}, right \in {merge(inp.n, ab.self)} :
            out' = [left |-> left.self, right |-> right.self]
    /\ pc' = "grouped"
    /\ UNCHANGED <<graphs, applied, inp, heap>>

\* d = n.merge(a), then d.update merged into a copy of n as it was.
MergeReplay ==
    /\ pc = "start"
    /\ \E d \in {merge(inp.n, inp.a)} :
        \E replayed \in {merge(inp.n, d.changes.update)} :
            out' = [merged |-> d.self,
                    changes |-> d.changes,
                    replayed |-> replayed.self]
    /\ pc' = "replay"
    /\ UNCHANGED <<graphs, applied, inp, heap>>

NextNode == MergeBothOrders \/ MergeTwice \/ MergeGrouped \/ MergeReplay

SpecNode == InitNode /\ [][NextNode]_vars

----------------------------------------------------------------------------
(* Graph *)

\* The order in which the graph's iterator visits its nodes.
UidOrder == <<"u1", "u2">>

\* new Graph(): no nodes.
NewGraph == <<>>

\* graph.value(key) is the stored node, or null: HasNode tells the two apart.
HasNode(graph, uid) == uid \in DOMAIN graph

\* The graph's iterator: its uids in key order.
GraphKeys(graph) == SelectSeq(UidOrder, LAMBDA uid : HasNode(graph, uid))

\* The graph that keeps the members under the keys of the object.
sourceByKey(object) == object

\* Graph.source(object): every member is stored under the uid of its own
\* metadata.
source(object) ==
    [uid \in {object[key].uid : key \in DOMAIN object} |->
        LET key == CHOOSE k \in DOMAIN object :
                        /\ object[k].uid = uid
                        /\ \A l \in DOMAIN object :
                                object[l].uid = uid =>
                                    \E i, j \in 1..Len(UidOrder) :
                                        UidOrder[i] = l /\ UidOrder[j] = k /\ i <= j
        IN  object[key]]

\* Every node and the graph itself is an emitter of its own: the events of
\* one of them as entries of the log of a Graph.merge call.
EmittedBy(emitter, events) ==
    [i \in 1..Len(events) |->
        [by |-> emitter, name |-> events[i].name, args |-> events[i].args]]

\* The graph as the listeners of a member's events find it: the member as
\* its own listeners saw it, inside the receiver as the loop has left it.
SeenInGraph(self, uid, seen) == [i \in 1..Len(seen) |-> Put(self, uid, seen[i])]

\* What a pass of the loop of Graph.merge files once the member is merged.
FileChanges(acc, uid, d) ==
    IF d.error # "none"
    THEN [acc EXCEPT !.self = Put(@, uid, d.self),
                     !.emitted = @ \o EmittedBy(uid, d.emitted),
                     !.seen = @ \o SeenInGraph(acc.self, uid, d.seen),
                     !.error = d.error]
    ELSE [self    |-> Put(acc.self, uid, d.self),
          changes |-> [update  |-> Put(acc.changes.update, uid, d.changes.update),
                       history |-> Put(acc.changes.history, uid, d.changes.history)],
          emitted |-> acc.emitted \o EmittedBy(uid, d.emitted),
          seen    |-> acc.seen \o SeenInGraph(acc.self, uid, d.seen),
          error   |-> "none"]

\* The pass of the loop that leaves out a member without fields.
MergeMemberSkippingEmpty(acc, graph, uid) ==
    LET node == graph[uid]
        target == IF HasNode(acc.self, uid) THEN acc.self[uid] ELSE new(node)
    IN  IF DOMAIN node.obj = {} THEN acc
        ELSE With(merge(target, node), LAMBDA d : FileChanges(acc, uid, d))

\* The pass of the loop that starts from an empty node even when the receiver
\* already has one under that uid.
MergeMemberFresh(acc, graph, uid) ==
    With(merge(new(graph[uid]), graph[uid]), LAMBDA d : FileChanges(acc, uid, d))

\* One pass of the loop of Graph.merge for the member `uid` of the incoming
\* graph: an unknown uid gets an empty node first, then the member is merged
\* into the receiver's node and both deltas are filed under the uid.
MergeMember(acc, graph, uid) ==
    LET node == graph[uid]
        target == IF HasNode(acc.self, uid) THEN acc.self[uid] ELSE new(node)
    IN  IF acc.error # "none" THEN acc
        ELSE With(merge(target, node), LAMBDA d : FileChanges(acc, uid, d))

\* The loop of Graph.merge: `for (const [uid, node] of graph)`.
RECURSIVE MergeMembers(_, _, _)
MergeMembers(acc, graph, uids) ==
    IF uids = <<>> THEN acc
    ELSE With(MergeMember(acc, graph, Head(uids)),
              LAMBDA next : MergeMembers(next, graph, Tail(uids)))

\* The end of a merge that emits an event only when some node of its delta
\* graph has a field.
EmitGraphChangesOnChange(looped) ==
    LET filled(graph) == \E uid \in DOMAIN graph : DOMAIN graph[uid].obj # {}
        updated == IF filled(looped.changes.update)
                   THEN <<Event("update", <<looped.changes.update>>)>> ELSE <<>>
        overwritten == IF filled(looped.changes.history)
                       THEN <<Event("history", <<looped.changes.history>>)>> ELSE <<>>
    IN  [looped EXCEPT !.emitted = @ \o EmittedBy("graph", updated \o overwritten),
                       !.seen = @ \o [i \in 1..Len(updated \o overwritten) |-> looped.self]]

\* The end of a merge that emits `history` first.
EmitGraphChangesHistoryFirst(looped) ==
    [looped EXCEPT !.emitted =
        @ \o EmittedBy("graph", <<Event("history", <<looped.changes.history>>),
                                  Event("update", <<looped.changes.update>>)>>),
                   !.seen = @ \o <<looped.self, looped.self>>]

\* The end of Graph.merge: `update`, then `history`, each with its delta graph.
EmitGraphChanges(looped) ==
    IF looped.error # "none" THEN looped
    ELSE [looped EXCEPT !.emitted =
            @ \o EmittedBy("graph", <<Event("update", <<looped.changes.update>>),
                                      Event("history", <<looped.changes.history>>)>>),
                        !.seen = @ \o <<looped.self, looped.self>>]

\* Graph.merge(incoming): the receiver after the call, the returned changes,
\* the events emitted (those of the member nodes, then the graph's own
\* `update` and `history`), the receiver as the listeners of each event find
\* it, and the error thrown, if any.  An incoming plain
\* object goes through Graph.source first; for a Graph that is the identity.
GraphMerge(self, incoming) ==
    With(<<self, source(incoming)>>, LAMBDA arg :
        With(MergeMembers([self    |-> arg[1],
                           changes |-> [update |-> NewGraph, history |-> NewGraph],
                           emitted |-> <<>>,
                           seen    |-> <<>>,
                           error   |-> "none"],
                          arg[2], GraphKeys(arg[2])),
             EmitGraphChanges))

\* The loop of Graph.rebase: `for (const [id] of this)`, a node the target
\* has as well is replaced by its rebase onto the target's.
RECURSIVE RebaseNodes(_, _, _, _)
RebaseNodes(rebased, self, target, ids) ==
    IF ids = <<>> THEN rebased
    ELSE LET id == Head(ids)
         IN  With(IF HasNode(target, id)
                  THEN Put(rebased, id, rebase(self[id], target[id]))
                  ELSE rebased,
                  LAMBDA next : RebaseNodes(next, self, target, Tail(ids)))

\* The rebase that stops after the two merges.
GraphRebaseMergesOnly(self, target) ==
    With(GraphMerge(NewGraph, target), LAMBDA first : GraphMerge(first.self, self).self)

\* Graph.rebase(target): a new graph that merged the target, then `this`,
\* and whose nodes known to both are then rebased.
GraphRebase(self, target) ==
    With(<<self, target>>, LAMBDA arg :
        With(GraphMerge(NewGraph, arg[2]), LAMBDA first :
            With(GraphMerge(first.self, arg[1]), LAMBDA second :
                RebaseNodes(second.self, arg[1], arg[2], GraphKeys(arg[1])))))

\* The loop of Graph.overlap: `for (const [key] of this)`, the overlap of a
\* node both graphs have is merged into the new graph as { [key]: overlap }.
RECURSIVE OverlapNodes(_, _, _, _)
OverlapNodes(shared, self, target, keys) ==
    IF keys = <<>> THEN shared
    ELSE LET key == Head(keys)
         IN  With(IF HasNode(self, key) /\ HasNode(target, key)
                  THEN GraphMerge(shared, (key :> overlap(self[key], target[key]))).self
                  ELSE shared,
                  LAMBDA next : OverlapNodes(next, self, target, Tail(keys)))

\* The overlap computed from the target's side.
GraphOverlapOfTarget(self, target) ==
    OverlapNodes(NewGraph, target, self, GraphKeys(target))

\* Graph.overlap(target)
GraphOverlap(self, target) ==
    With(<<self, target>>, LAMBDA arg :
        OverlapNodes(NewGraph, arg[1], arg[2], GraphKeys(arg[1])))

----------------------------------------------------------------------------
(* Replicas exchanging delta graphs *)

Replicas == {"r1", "r2"}

\* Metadata on the wire: either value at every state up to MaxState, and the
\* number 5 once more with a `prev` pointer.
WireMetas ==
    NodeMetas \cup {MetaOf(JNum(5), s, "p") : s \in 1..MaxState}

\* A node whose fields `present` all carry the record m.
UniformNode(uid, present, m) == [uid |-> uid, obj |-> [field \in present |-> m]]

\* Delta graphs a third peer may send: node u1 with one field, an empty
\* node, or every node with every field.
WireDeltas ==
    {("u1" :> UniformNode("u1", {field}, m)) : field \in Fields, m \in WireMetas}
    \cup {(uid :> NewNode(uid)) : uid \in Uids}
    \cup {[uid \in Uids |-> UniformNode(uid, Fields, m)] : m \in WireMetas}

\* The delta graphs known to either replica.
Circulating == UNION {applied[r] : r \in Replicas}

Init ==
    /\ graphs = [r \in Replicas |-> NewGraph]
    /\ applied = [r \in Replicas |-> {}]
    /\ heap = <<>>
    /\ inp = <<>>
    /\ out = <<>>
    /\ pc = "start"

\* Replica r merges a delta graph: one sent by a third peer, or one the other
\* replica has applied or produced.
Receive(r, sent) ==
    /\ Cardinality(Circulating \cup {sent}) <= MaxDeltas
    /\ \E d \in {GraphMerge(graphs[r], sent)} :
            graphs' = [graphs EXCEPT ![r] = d.self]
    /\ applied' = [applied EXCEPT ![r] = @ \cup {sent}]
    /\ pc' = "Graph.merge"
    /\ UNCHANGED <<inp, out, heap>>

\* Replica r writes a field of one of its nodes with setMetadata; the update
\* delta the call returns is what r's peers will be sent.
LocalSetMetadata(r, uid, field, metadata) ==
    /\ HasNode(graphs[r], uid)
    /\ state(graphs[r][uid], field) < MaxState
    /\ \E d \in {setMetadata(graphs[r][uid], field, metadata)} :
        \E sent \in {(uid :> d.changes.update)} :
           /\ Cardinality(Circulating \cup {sent}) <= MaxDeltas
           /\ graphs' = [graphs EXCEPT ![r] = Put(@, uid, d.self)]
           /\ applied' = [applied EXCEPT ![r] = @ \cup {sent}]
    /\ pc' = "setMetadata"
    /\ UNCHANGED <<inp, out, heap>>

\* Replica r writes a field of one of its nodes by merging a plain mapping.
LocalWrite(r, uid, field, val) ==
    /\ HasNode(graphs[r], uid)
    /\ state(graphs[r][uid], field) < MaxState
    /\ \E d \in {mergePlain(graphs[r][uid], (field :> val))} :
        \E sent \in {(uid :> d.changes.update)} :
           /\ Cardinality(Circulating \cup {sent}) <= MaxDeltas
           /\ graphs' = [graphs EXCEPT ![r] = Put(@, uid, d.self)]
           /\ applied' = [applied EXCEPT ![r] = @ \cup {sent}]
    /\ pc' = "Node.merge"
    /\ UNCHANGED <<inp, out, heap>>

Next ==
    \/ \E r \in Replicas, sent \in WireDeltas \cup Circulating : Receive(r, sent)
    \/ \E r \in Replicas, uid \in Uids, field \in Fields, metadata \in WireMetas :
            LocalSetMetadata(r, uid, field, metadata)
    \/ \E r \in Replicas, uid \in Uids, field \in Fields, val \in NodeValues :
            LocalWrite(r, uid, field, val)

Spec == Init /\ [][Next]_vars

----------------------------------------------------------------------------
(* Entity.delta and Node.merge, one call on drawn nodes *)

\* The names of two numbers that are not finite.
StrInfinity == <<73, 110, 102, 105, 110, 105, 116, 121>>

StrNaN == <<78, 97, 78>>

\* Metadata of the drawn nodes: the metadata on the wire, and Infinity and
\* NaN at state 1.
DeltaMetas ==
    WireMetas \cup {MetaOf(JNonFinite(name), 1, "none") : name \in {StrInfinity, StrNaN}}

\* Plain mappings field -> value handed to Node.merge.
PlainMappings == UNION {[present -> NodeValues] : present \in SUBSET Fields}

\* The events of a node.
NodeEvents == {"conflict", "history", "update"}

InitDelta ==
    /\ \E n \in NodesOf("u1", DeltaMetas), a \in NodesOf("u1", DeltaMetas) :
            inp = [n |-> n, a |-> a]
    /\ out = <<>>
    /\ pc = "start"
    /\ graphs = <<>>
    /\ applied = <<>>
    /\ heap = <<>>

\* n.delta(a)
DeltaOnce ==
    /\ pc = "start"
    /\ \E d \in {delta(inp.n, inp.a)} : out' = d
    /\ pc' = "delta"
    /\ UNCHANGED <<graphs, applied, inp, heap>>

\* n.merge(a)
MergeOnce ==
    /\ pc = "start"
    /\ \E d \in {merge(inp.n, inp.a)} : out' = d
    /\ pc' = "merge"
    /\ UNCHANGED <<graphs, applied, inp, heap>>

\* n.merge(mapping) for a plain mapping.
WritePlain(mapping) ==
    /\ pc = "start"
    /\ \E d \in {mergePlain(inp.n, mapping)} :
            out' = [mapping |-> mapping, result |-> d]
    /\ pc' = "write"
    /\ UNCHANGED <<graphs, applied, inp, heap>>

\* n.on(event, () => { throw ... }); n.merge(a)
MergeListening(event) ==
    /\ pc = "start"
    /\ \E d \in {mergeListening(inp.n, inp.a, {event})} :
            out' = [event |-> event, result |-> d]
    /\ pc' = "listening"
    /\ UNCHANGED <<graphs, applied, inp, heap>>

\* n.setMetadata(field, metadata)
SetMetadata(field, metadata) ==
    /\ pc = "start"
    /\ \E d \in {setMetadata(inp.n, field, metadata)} :
            out' = [field |-> field, metadata |-> metadata, result |-> d]
    /\ pc' = "setMetadata"
    /\ UNCHANGED <<graphs, applied, inp, heap>>

\* The drawn node a under the given uid.
Target(uid) == [inp.a EXCEPT !.uid = uid]

\* rebased = n.rebase(target); copy(target).merge(rebased)
Rebase(uid) ==
    /\ pc = "start"
    /\ \E rebased \in {rebase(inp.n, Target(uid))} :
        \E d \in {merge(Target(uid), rebased)} :
            out' = [target |-> Target(uid), rebased |-> rebased, merged |-> d.self]
    /\ pc' = "rebase"
    /\ UNCHANGED <<graphs, applied, inp, heap>>

\* n.overlap(target)
Overlap(uid) ==
    /\ pc = "start"
    /\ out' = [target |-> Target(uid), shared |-> overlap(inp.n, Target(uid))]
    /\ pc' = "overlap"
    /\ UNCHANGED <<graphs, applied, inp, heap>>

\* Nodes in the serialized format in which a field carries the state 0.
ZeroStateNodes ==
    {node \in NodesOf("u1", {MetaOf(JNum(5), s, "none") : s \in 0..1}) :
        \E k \in DOMAIN node.obj : state(node, k) = 0}

\* n.merge(Node.source(object)) and n.delta(Node.source(object)) for an
\* object in the serialized format with a field at state 0.
MergeWire(incoming) ==
    /\ pc = "start"
    /\ \E m \in {merge(inp.n, incoming)}, d \in {delta(inp.n, incoming)} :
            out' = [incoming |-> incoming, merged |-> m, delta |-> d]
    /\ pc' = "wire"
    /\ UNCHANGED <<graphs, applied, inp, heap>>

NextDelta ==
    \/ DeltaOnce
    \/ MergeOnce
    \/ \E mapping \in PlainMappings : WritePlain(mapping)
    \/ \E event \in NodeEvents : MergeListening(event)
    \/ \E field \in Fields, metadata \in WireMetas : SetMetadata(field, metadata)
    \/ \E uid \in Uids : Rebase(uid)
    \/ \E uid \in Uids : Overlap(uid)
    \/ \E incoming \in ZeroStateNodes : MergeWire(incoming)

SpecDelta == InitDelta /\ [][NextDelta]_vars

----------------------------------------------------------------------------
(* Graph.merge, one call on drawn graphs *)

\* Receivers: an empty graph, or one that has merged a delta graph.
GraphReceivers == {NewGraph} \cup {GraphMerge(NewGraph, sent).self : sent \in WireDeltas}

\* Plain objects whose keys are not the uids of their members: a node filed
\* under another uid, an empty one or one with a field, and two members
\* with the same uid.
MiskeyedObjects ==
    {("u1" :> NewNode("u2"))}
    \cup {("u2" :> UniformNode("u1", {"x"}, m)) : m \in NodeMetas}
    \cup {[key \in Uids |-> UniformNode("u2", {"y"}, m)] : m \in NodeMetas}

InitGraph ==
    /\ \E g \in GraphReceivers, h \in WireDeltas \cup {NewGraph} \cup MiskeyedObjects :
            inp = [g |-> g, h |-> h]
    /\ out = <<>>
    /\ pc = "start"
    /\ graphs = <<>>
    /\ applied = <<>>
    /\ heap = <<>>

\* g.merge(h)
GraphMergeOnce ==
    /\ pc = "start"
    /\ \E d \in {GraphMerge(inp.g, inp.h)} : out' = d
    /\ pc' = "merged"
    /\ UNCHANGED <<graphs, applied, inp, heap>>

\* g.rebase(Graph.source(h))
GraphRebaseOnce ==
    /\ pc = "start"
    /\ \E target \in {source(inp.h)} :
            out' = [target |-> target, rebased |-> GraphRebase(inp.g, target)]
    /\ pc' = "rebased"
    /\ UNCHANGED <<graphs, applied, inp, heap>>

\* g.overlap(Graph.source(h))
GraphOverlapOnce ==
    /\ pc = "start"
    /\ \E target \in {source(inp.h)} :
            out' = [target |-> target, shared |-> GraphOverlap(inp.g, target)]
    /\ pc' = "overlapped"
    /\ UNCHANGED <<graphs, applied, inp, heap>>

NextGraph == GraphMergeOnce \/ GraphRebaseOnce \/ GraphOverlapOnce

SpecGraph == InitGraph /\ [][NextGraph]_vars

----------------------------------------------------------------------------
(* Graph.merge on node objects: which object the graph keeps *)

\* heap.node is the content of every Node object made so far, by reference
\* (its index); heap.graph is the receiver's container, uid -> reference;
\* heap.passed holds, for every object the caller passed as incoming, its
\* reference and its content at the time of the call.
NewHeap == [node |-> <<>>, graph |-> <<>>, passed |-> {}]

\* The node objects the caller makes: empty, or with the field x.
IncomingNodes ==
    {NewNode(uid) : uid \in Uids}
    \cup {UniformNode(uid, {"x"}, m) : uid \in Uids, m \in NodeMetas}

\* The graph keeping the incoming object itself under an unknown uid.
TargetOfOriginal(h, uid, incoming) ==
    IF HasNode(h.graph, uid) THEN h
    ELSE [h EXCEPT !.graph = Put(@, uid, incoming)]

\* `let target = this.value(uid); if (!target) { target = this[nodes][uid] =
\* node.new(); }`: the heap once the target exists, a new object when the
\* receiver had none under the uid.
TargetOf(h, uid, incoming) ==
    IF HasNode(h.graph, uid) THEN h
    ELSE [h EXCEPT !.node = Append(@, new(h.node[incoming])),
                   !.graph = Put(@, uid, Len(h.node) + 1)]

\* target.merge(node) on objects: the fields are assigned to the target.
HeapMerge(h, target, incoming) ==
    [h EXCEPT !.node[target] = merge(h.node[target], h.node[incoming]).self]

\* graph.merge({ [node]: node }) for a Node object: Graph.source keeps the
\* object in the graph it builds, and the loop merges it into the target.
HeapGraphMerge(h, incoming) ==
    LET uid == h.node[incoming].uid
    IN  With(TargetOf(h, uid, incoming),
             LAMBDA held : HeapMerge(held, held.graph[uid], incoming))

InitHeap ==
    /\ heap = NewHeap
    /\ inp = <<>>
    /\ out = <<>>
    /\ pc = "start"
    /\ graphs = <<>>
    /\ applied = <<>>

\* The caller makes a Node object with the given content and merges it into
\* the graph.
MergeObject(node) ==
    /\ Cardinality(heap.passed) < MaxIncoming
    /\ \E made \in {[heap EXCEPT !.node = Append(@, node)]} :
        \E merged \in {HeapGraphMerge(made, Len(made.node))} :
            heap' = [merged EXCEPT !.passed = @ \cup {[ref |-> Len(made.node), was |-> node]}]
    /\ pc' = "Graph.merge"
    /\ UNCHANGED <<graphs, applied, inp, out>>

NextHeap == \E node \in IncomingNodes : MergeObject(node)

SpecHeap == InitHeap /\ [][NextHeap]_vars

----------------------------------------------------------------------------
(* Rebase and overlap on objects: which records and nodes are shared *)

\* refs.rec is every metadata object made so far, by reference (its index);
\* refs.node every Node object, with its uid and, for each field, the
\* reference of the metadata object it holds; refs.graph every Graph object,
\* uid -> reference of the Node object it holds.
NewRefs == [rec |-> <<>>, node |-> <<>>, graph |-> <<>>]

\* The node as meta(), state() and the iterator read it.
NodeAt(h, ref) ==
    [uid |-> h.node[ref].uid,
     obj |-> [k \in DOMAIN h.node[ref].obj |-> h.rec[h.node[ref].obj[k]]]]

\* The graph as value() and the iterator read it.
GraphAt(h, ref) == [uid \in DOMAIN h.graph[ref] |-> NodeAt(h, h.graph[ref][uid])]

\* Node.source(object): a Node object over metadata objects of its own.
RefSource(h, node) ==
    LET keys == Keys(node)
        at(k) == CHOOSE i \in 1..Len(keys) : keys[i] = k
    IN  [h EXCEPT !.rec = @ \o [i \in 1..Len(keys) |-> meta(node, keys[i])],
                  !.node = Append(@, [uid |-> node.uid,
                                      obj |-> [k \in DOMAIN node.obj |-> Len(h.rec) + at(k)]])]

\* node.new(): one more Node object, without fields.
RefNew(h, ref) == [h EXCEPT !.node = Append(@, [uid |-> h.node[ref].uid, obj |-> <<>>])]

\* target.merge(incoming) on objects: `this[node][field] = update` stores the
\* incoming node's metadata object itself, for each field the merge applies
\* (the fields of its update delta).
RefMerge(h, target, incoming) ==
    With(merge(NodeAt(h, target), NodeAt(h, incoming)), LAMBDA d :
        LET assigned == DOMAIN d.changes.update.obj
            held == h.node[target].obj
        IN  [h EXCEPT !.node[target].obj =
                [k \in DOMAIN held \cup assigned |->
                    IF k \in assigned THEN h.node[incoming].obj[k] ELSE held[k]]])

\* The bump written into the metadata object the rebased node holds.
BumpRecordInPlace(h, rebased, key, bumped) ==
    [h EXCEPT !.rec[h.node[rebased].obj[key]].state = bumped.state]

\* `rebased[node][key] = { ...this.meta(key), state }`: a new metadata object.
BumpRecord(h, rebased, key, bumped) ==
    [h EXCEPT !.rec = Append(@, bumped),
              !.node[rebased].obj = Put(@, key, Len(h.rec) + 1)]

\* The loop of rebase on objects.
RECURSIVE RefBumpFields(_, _, _, _, _)
RefBumpFields(h, rebased, self, target, keys) ==
    IF keys = <<>> THEN h
    ELSE LET key == Head(keys)
             bumped == [meta(NodeAt(h, self), key) EXCEPT
                            !.state = BumpedState(NodeAt(h, target), key)]
         IN  With(IF ShouldBump(NodeAt(h, self), NodeAt(h, target), key)
                  THEN BumpRecord(h, rebased, key, bumped)
                  ELSE h,
                  LAMBDA next : RefBumpFields(next, rebased, self, target, Tail(keys)))

\* self.rebase(target) on objects: the node returned is the one made first,
\* at Len(h.node) + 1.
RefRebase(h, self, target) ==
    With(RefNew(h, self), LAMBDA made :
        With(RefMerge(made, Len(made.node), target), LAMBDA first :
            With(RefMerge(first, Len(made.node), self), LAMBDA second :
                RefBumpFields(second, Len(made.node), self, target,
                              Keys(NodeAt(h, self))))))

\* self.overlap(target) on objects: `shared[node][field] = this.meta(field)`
\* stores the receiver's metadata object itself.
RefOverlap(h, self, target) ==
    LET shared == DOMAIN overlap(NodeAt(h, self), NodeAt(h, target)).obj
    IN  [h EXCEPT !.node = Append(@, [uid |-> h.node[self].uid,
                                      obj |-> [k \in shared |-> h.node[self].obj[k]]])]

\* graph.new(): one more Graph object, without nodes.
RefGraphNew(h) == [h EXCEPT !.graph = Append(@, <<>>)]

\* One pass of the loop of Graph.merge on objects: an unknown uid gets a new
\* Node object, into which the member is merged.
RefGraphMember(h, graph, node) ==
    LET uid == h.node[node].uid
        held == IF uid \in DOMAIN h.graph[graph] THEN h
                ELSE [RefNew(h, node) EXCEPT !.graph[graph] = Put(@, uid, Len(h.node) + 1)]
    IN  With(held, LAMBDA known : RefMerge(known, known.graph[graph][uid], node))

\* graph.merge(incoming) on objects, `members` being the Node objects of the
\* incoming graph by uid.
RECURSIVE RefGraphMembers(_, _, _, _)
RefGraphMembers(h, graph, members, uids) ==
    IF uids = <<>> THEN h
    ELSE With(RefGraphMember(h, graph, members[Head(uids)]),
              LAMBDA next : RefGraphMembers(next, graph, members, Tail(uids)))

RefGraphMerge(h, graph, members) == RefGraphMembers(h, graph, members, GraphKeys(members))

\* The loop of Graph.rebase on objects.
RECURSIVE RefRebaseNodes(_, _, _, _, _)
RefRebaseNodes(h, rebased, self, target, ids) ==
    IF ids = <<>> THEN h
    ELSE LET id == Head(ids)
         IN  With(IF id \in DOMAIN h.graph[target]
                  THEN [RefRebase(h, h.graph[self][id], h.graph[target][id])
                            EXCEPT !.graph[rebased] = Put(@, id, Len(h.node) + 1)]
                  ELSE h,
                  LAMBDA next : RefRebaseNodes(next, rebased, self, target, Tail(ids)))

\* self.rebase(target) for graphs, on objects: the graph returned is the one
\* made first, at Len(h.graph) + 1.
RefGraphRebase(h, self, target) ==
    With(RefGraphNew(h), LAMBDA made :
        With(RefGraphMerge(made, Len(made.graph), made.graph[target]), LAMBDA first :
            With(RefGraphMerge(first, Len(made.graph), first.graph[self]), LAMBDA second :
                RefRebaseNodes(second, Len(made.graph), self, target,
                               GraphKeys(h.graph[self])))))

\* The loop of Graph.overlap on objects: the overlap of two nodes is a new
\* Node object, merged into the new graph as { [key]: overlap }.
RECURSIVE RefOverlapNodes(_, _, _, _, _)
RefOverlapNodes(h, shared, self, target, keys) ==
    IF keys = <<>> THEN h
    ELSE LET key == Head(keys)
         IN  With(IF key \in DOMAIN h.graph[target]
                  THEN RefGraphMerge(RefOverlap(h, h.graph[self][key], h.graph[target][key]),
                                     shared, (key :> Len(h.node) + 1))
                  ELSE h,
                  LAMBDA next : RefOverlapNodes(next, shared, self, target, Tail(keys)))

\* self.overlap(target) for graphs, on objects.
RefGraphOverlap(h, self, target) ==
    With(RefGraphNew(h), LAMBDA made :
        RefOverlapNodes(made, Len(made.graph), self, target, GraphKeys(h.graph[self])))

\* The node that only the receiving graph holds.
OtherMember == UniformNode("u2", {"y"}, MetaOf(JNum(5), 1, "none"))

\* Node objects 1 and 2 are the drawn nodes n and a, node object 3 is another
\* member; graph object 1 holds n and that member, graph object 2 holds a.
InitRefs ==
    /\ \E n \in NodesOf("u1", NodeMetas), a \in NodesOf("u1", NodeMetas) :
            /\ inp = [n |-> n, a |-> a]
            /\ \E made \in {RefSource(RefSource(RefSource(NewRefs, n), a), OtherMember)} :
                    heap = [made EXCEPT !.graph = <<("u1" :> 1) @@ ("u2" :> 3), ("u1" :> 2)>>]
    /\ out = <<>>
    /\ pc = "start"
    /\ graphs = <<>>
    /\ applied = <<>>

\* What a call leaves: the objects as they were before it, the receiver, the
\* target and the object returned.
Called(self, target, result) ==
    [before |-> heap, self |-> self, target |-> target, result |-> result]

\* n.rebase(a)
RefNodeRebase ==
    /\ pc = "start"
    /\ heap' = RefRebase(heap, 1, 2)
    /\ out' = Called(1, 2, Len(heap.node) + 1)
    /\ pc' = "Node.rebase"
    /\ UNCHANGED <<graphs, applied, inp>>

\* n.overlap(a)
RefNodeOverlap ==
    /\ pc = "start"
    /\ heap' = RefOverlap(heap, 1, 2)
    /\ out' = Called(1, 2, Len(heap.node) + 1)
    /\ pc' = "Node.overlap"
    /\ UNCHANGED <<graphs, applied, inp>>

\* g.rebase(t) for the two graphs.
RefGraphRebaseOnce ==
    /\ pc = "start"
    /\ heap' = RefGraphRebase(heap, 1, 2)
    /\ out' = Called(1, 2, Len(heap.graph) + 1)
    /\ pc' = "Graph.rebase"
    /\ UNCHANGED <<graphs, applied, inp>>

\* g.overlap(t) for the two graphs.
RefGraphOverlapOnce ==
    /\ pc = "start"
    /\ heap' = RefGraphOverlap(heap, 1, 2)
    /\ out' = Called(1, 2, Len(heap.graph) + 1)
    /\ pc' = "Graph.overlap"
    /\ UNCHANGED <<graphs, applied, inp>>

NextRefs == RefNodeRebase \/ RefNodeOverlap \/ RefGraphRebaseOnce \/ RefGraphOverlapOnce

SpecRefs == InitRefs /\ [][NextRefs]_vars

----------------------------------------------------------------------------
(* One node receiving a sequence of calls *)

\* Two objects: { b: 1, a: 1 } is above { a: 5 } as written, and below it
\* once its keys are sorted.
ObjBA == JObj(<<[k |-> KeyB, v |-> JNum(1)], [k |-> KeyA, v |-> JNum(1)]>>)

ObjA5 == JObj(<<[k |-> KeyA, v |-> JNum(5)]>>)

SeqValues == NodeValues \cup {ObjBA, ObjA5}

\* Nodes that are rebased onto or overlapped with: with a field at state 0,
\* with both fields, and with another uid.
SeqTargets ==
    ZeroStateNodes
    \cup {UniformNode("u1", Fields, MetaOf(JNum(5), s, "none")) : s \in 1..MaxState}
    \cup {UniformNode("u2", {"y"}, MetaOf(JStr(StrFive), MaxState, "none"))}

\* Nodes in the serialized format that are merged in: the targets, the field
\* x with every value at every state, and the number 5 once more with a
\* `prev` pointer.
SeqNodes ==
    SeqTargets
    \cup {UniformNode("u1", {"x"}, MetaOf(v, s, "none")) : v \in SeqValues, s \in 1..MaxState}
    \cup {UniformNode("u1", {"x"}, MetaOf(JNum(5), 1, "p"))}

\* Metadata handed to setMetadata: the state it carries is not the one written.
SeqMetadata == {MetaOf(JNum(5), 0, "p"), MetaOf(JStr(StrFive), MaxState, "none")}

\* node = new Node({ uid: 'u1' }).  out.self is the node, out.made the nodes
\* the last call returned, out.failed whether a call has thrown, out.calls
\* the number of calls so far; applied holds the nodes merged in by the calls
\* that returned.
InitSeq ==
    /\ out = [self |-> NewNode("u1"), made |-> {}, failed |-> FALSE, calls |-> 0]
    /\ applied = {}
    /\ inp = <<>>
    /\ pc = "start"
    /\ graphs = <<>>
    /\ heap = <<>>

\* What a call of merge or setMetadata leaves: the node as the call left it,
\* and the two deltas when the call returned.
AfterMerge(d) ==
    [self   |-> d.self,
     made   |-> IF d.error = "none" THEN {d.changes.update, d.changes.history} ELSE {},
     failed |-> out.failed \/ d.error # "none",
     calls  |-> out.calls + 1]

\* node.merge(incoming), the merged nodes recorded.
RegisterMerge(incoming) ==
    /\ out.calls < MaxCalls
    /\ \E d \in {merge(out.self, incoming)} :
            /\ out' = AfterMerge(d)
            /\ applied' = IF d.error = "none" THEN applied \cup {incoming} ELSE applied
    /\ pc' = "Node.merge"
    /\ UNCHANGED <<graphs, inp, heap>>

NextRegister == \E incoming \in SeqNodes : RegisterMerge(incoming)

SpecRegister == InitSeq /\ [][NextRegister]_vars

\* node.merge(incoming)
SeqMerge(incoming) ==
    /\ out.calls < MaxCalls
    /\ \E d \in {merge(out.self, incoming)} : out' = AfterMerge(d)
    /\ pc' = "Node.merge"
    /\ UNCHANGED <<graphs, applied, inp, heap>>

\* node.setMetadata(field, metadata)
SeqSetMetadata(field, metadata) ==
    /\ out.calls < MaxCalls
    /\ state(out.self, field) < MaxState
    /\ \E d \in {setMetadata(out.self, field, metadata)} : out' = AfterMerge(d)
    /\ pc' = "setMetadata"
    /\ UNCHANGED <<graphs, applied, inp, heap>>

\* node = node.rebase(target): the calls go on with the node returned.
SeqRebase(target) ==
    /\ out.calls < MaxCalls
    /\ \A k \in Fields : state(target, k) < MaxState
    /\ \E throws \in {rebaseThrows(out.self, target)} :
        \E rebased \in {rebase(out.self, target)} :
            out' = [self   |-> IF throws THEN out.self ELSE rebased,
                    made   |-> IF throws THEN {} ELSE {rebased},
                    failed |-> out.failed \/ throws,
                    calls  |-> out.calls + 1]
    /\ pc' = "rebase"
    /\ UNCHANGED <<graphs, applied, inp, heap>>

\* node = node.overlap(target): the calls go on with the node returned.
SeqOverlap(target) ==
    /\ out.calls < MaxCalls
    /\ \E shared \in {overlap(out.self, target)} :
            out' = [self |-> shared, made |-> {shared}, failed |-> out.failed,
                    calls |-> out.calls + 1]
    /\ pc' = "overlap"
    /\ UNCHANGED <<graphs, applied, inp, heap>>

NextSeq ==
    \/ \E incoming \in SeqNodes : SeqMerge(incoming)
    \/ \E field \in Fields, metadata \in SeqMetadata : SeqSetMetadata(field, metadata)
    \/ \E target \in SeqTargets : SeqRebase(target)
    \/ \E target \in SeqTargets : SeqOverlap(target)

SpecSeq == InitSeq /\ [][NextSeq]_vars

----------------------------------------------------------------------------
(* Two replicas forwarding every update graph to each other *)

Peer(r) == CHOOSE q \in Replicas : q # r

\* What a replica holds when the exchange starts: the node u1, empty or
\* with the field x at state 1.
EchoStarts ==
    {("u1" :> node) :
        node \in {NewNode("u1")}
                 \cup {UniformNode("u1", {"x"}, m) : m \in {w \in WireMetas : w.state = 1}}}

\* The delta graph has a field in some node.
HasFields(graph) == \E uid \in DOMAIN graph : DOMAIN graph[uid].obj # {}

\* A graph in flight, with the number of merges between the local write and
\* the emit of this graph (counted up to MaxHops).
InFlight(graph, hops) == [graph |-> graph, hops |-> hops]

\* graphs[r] is the graph of replica r and inp[r] the update graphs sent to
\* r and not merged yet, oldest first.  out counts the local writes and
\* tells whether a merge has emitted an update graph with a field.
InitEcho ==
    /\ graphs \in [Replicas -> EchoStarts]
    /\ inp = [r \in Replicas |-> <<>>]
    /\ out = [writes |-> 0, echoed |-> FALSE]
    /\ pc = "start"
    /\ applied = <<>>
    /\ heap = <<>>

\* Replica r writes a field of its node u1 by merging a plain mapping; the
\* node's `update` delta is forwarded to the peer as a graph.
EchoWrite(r, field, val) ==
    /\ out.writes < MaxWrites
    /\ state(graphs[r]["u1"], field) < MaxState
    /\ \E d \in {mergePlain(graphs[r]["u1"], (field :> val))} :
            /\ graphs' = [graphs EXCEPT ![r] = Put(@, "u1", d.self)]
            /\ inp' = [inp EXCEPT ![Peer(r)] =
                            Append(@, InFlight(("u1" :> d.changes.update), 0))]
    /\ out' = [out EXCEPT !.writes = @ + 1]
    /\ pc' = "write"
    /\ UNCHANGED <<applied, heap>>

\* graph.on('update', (update) => peer.send(update)) at replica r, which
\* merges the oldest graph sent to it: the `update` graph that Graph.merge
\* emits goes to the peer.
EchoDeliver(r) ==
    /\ inp[r] # <<>>
    /\ \E d \in {GraphMerge(graphs[r], Head(inp[r]).graph)} :
        \E hops \in {IF Head(inp[r]).hops < MaxHops
                      THEN Head(inp[r]).hops + 1 ELSE MaxHops} :
            /\ graphs' = [graphs EXCEPT ![r] = d.self]
            /\ inp' = [inp EXCEPT ![r] = Tail(@),
                                  ![Peer(r)] = Append(@, InFlight(d.changes.update, hops))]
            /\ out' = [out EXCEPT !.echoed = @ \/ HasFields(d.changes.update)]
    /\ pc' = "deliver"
    /\ UNCHANGED <<applied, heap>>

NextEcho ==
    \/ \E r \in Replicas, field \in Fields, val \in NodeValues : EchoWrite(r, field, val)
    \/ \E r \in Replicas : EchoDeliver(r)

SpecEcho == InitEcho /\ [][NextEcho]_vars

\* Every graph sent is merged in the end: the listener runs on every emit
\* and the transport delivers.
FairEcho == SpecEcho /\ \A r \in Replicas : WF_vars(EchoDeliver(r))

----------------------------------------------------------------------------
(* Properties of the resolver *)

\* Lexicographic order on strings, stated without recursion: s is greater
\* than t when, at the first position where they differ, s has the greater
\* code unit or t has ended.
LexGreater(s, t) ==
    \E i \in 1..Len(s) :
        /\ \A j \in 1..(i - 1) : j <= Len(t) /\ s[j] = t[j]
        /\ i > Len(t) \/ s[i] > t[i]

\* Deep equality of JSON values: the members of an object are compared key
\* by key, whatever their order.
RECURSIVE JsonEqual(_, _)
JsonEqual(v, w) ==
    /\ v.t = w.t
    /\ v.b = w.b /\ v.n = w.n /\ v.s = w.s
    /\ Len(v.kv) = Len(w.kv)
    /\ IF v.t = "obj"
       THEN \A i \in 1..Len(v.kv) : \E j \in 1..Len(w.kv) :
                v.kv[i].k = w.kv[j].k /\ JsonEqual(v.kv[i].v, w.kv[j].v)
       ELSE \A i \in 1..Len(v.kv) : JsonEqual(v.kv[i].v, w.kv[i].v)

\* Members sorted by key.
RECURSIVE InsertMember(_, _)
InsertMember(m, sorted) ==
    IF sorted = <<>> THEN <<m>>
    ELSE IF LexGreater(m.k, Head(sorted).k)
         THEN <<Head(sorted)>> \o InsertMember(m, Tail(sorted))
         ELSE <<m>> \o sorted

RECURSIVE SortMembers(_)
SortMembers(members) ==
    IF members = <<>> THEN <<>>
    ELSE InsertMember(Head(members), SortMembers(Tail(members)))

\* The canonical string of a JSON value: as JSON.stringify, the keys of every
\* object sorted.
RECURSIVE Canonical(_)
Canonical(v) ==
    LET inner == [i \in 1..Len(v.kv) |-> [k |-> v.kv[i].k, v |-> Canonical(v.kv[i].v)]]
    IN  [v EXCEPT !.kv = IF v.t = "obj" THEN SortMembers(inner) ELSE inner]

CanonicalString(v) == JSONstringify(Canonical(v))

SameString == JSONstringify(inp.current.value) = JSONstringify(inp.update.value)

\* C8: at equal states the resolver returns one of its two arguments, and
\* the same record whichever of the two comes first.
C8_ResolverSymmetry ==
    pc = "conflict" =>
        /\ out.result \in {inp.current, inp.update}
        /\ out.result = out.inverse

IsNumberAndItsText(num, str) ==
    /\ num.t = "num"
    /\ str.t = "str"
    /\ str.s = NumberToString(num.n)

\* C10: an object value beats every value that is not an object, and a number
\* beats the string whose text is that number, in either argument position.
C10_CrossTypePrecedence ==
    pc = "conflict" =>
        LET c == inp.current
            u == inp.update
        IN  /\ (c.value.t = "obj" /\ u.value.t # "obj") =>
                    out.result = c /\ out.inverse = c
            /\ (u.value.t = "obj" /\ c.value.t # "obj") =>
                    out.result = u /\ out.inverse = u
            /\ IsNumberAndItsText(c.value, u.value) =>
                    out.result = c /\ out.inverse = c
            /\ IsNumberAndItsText(u.value, c.value) =>
                    out.result = u /\ out.inverse = u

\* The number 5 in the update against the string "5" in the receiver.
C10_Witness ==
    /\ pc = "conflict"
    /\ IsNumberAndItsText(inp.update.value, inp.current.value)
    /\ out.result = inp.update
    /\ out.inverse = inp.update

\* An object in the update against an array in the receiver.
C10_WitnessObject ==
    /\ pc = "conflict"
    /\ inp.update.value.t = "obj"
    /\ inp.current.value.t = "arr"
    /\ out.result = inp.update

----------------------------------------------------------------------------
(* Properties of Node.merge *)

\* Two nodes show the same snapshot: the same fields, with values that are
\* the same JSON value.
SameSnapshot(n1, n2) ==
    /\ DOMAIN snapshot(n1) = DOMAIN snapshot(n2)
    /\ \A field \in DOMAIN snapshot(n1) :
            JsonEqual(snapshot(n1)[field], snapshot(n2)[field])

\* C3: merging a then b into a copy of n gives the same snapshot as merging
\* b then a into another copy of n.
C3_MergeCommutes ==
    pc = "orders" => SameSnapshot(out.ab, out.ba)

\* a and b conflict on a field at equal states with different values, n
\* being older there, and the two merge orders have both been run.
C3_Witness ==
    /\ pc = "orders"
    /\ \E field \in Fields :
        /\ HasField(inp.a, field) /\ HasField(inp.b, field)
        /\ state(inp.a, field) = state(inp.b, field)
        /\ state(inp.n, field) < state(inp.a, field)
        /\ value(inp.a, field) # value(inp.b, field)
        /\ value(out.ab, field) = value(out.ba, field)

\* C4: a second n.merge(m) leaves the snapshot of the first, returns an
\* update delta without fields and emits no `update` event.
C4_MergeIdempotent ==
    pc = "twice" =>
        /\ SameSnapshot(out.second.self, out.once)
        /\ Keys(out.second.changes.update) = <<>>
        /\ \A i \in 1..Len(out.second.emitted) : out.second.emitted[i].name # "update"

\* The first call changed the receiver and emitted `update`; the second ran.
C4_Witness ==
    /\ pc = "twice"
    /\ Keys(out.first.changes.update) # <<>>
    /\ \E i \in 1..Len(out.first.emitted) : out.first.emitted[i].name = "update"
    /\ out.once # inp.n
    /\ Keys(out.second.changes.update) = <<>>

\* C5: merging c into (a merged with b) gives the same snapshot as merging
\* (b merged with c) into a; the three nodes are inp.n, inp.a and inp.b.
C5_MergeAssociates ==
    pc = "grouped" => SameSnapshot(out.left, out.right)

\* The three nodes hold three different records for one field.
C5_Witness ==
    /\ pc = "grouped"
    /\ \E field \in Fields :
        /\ HasField(inp.n, field) /\ HasField(inp.a, field) /\ HasField(inp.b, field)
        /\ Cardinality({meta(inp.n, field), meta(inp.a, field), meta(inp.b, field)}) = 3
        /\ meta(out.left, field) # meta(inp.n, field)

\* C7: d.update merged alone into the receiver as it was before the merge
\* gives the snapshot the receiver has after the merge.
C7_DeltaFaithful ==
    pc = "replay" => SameSnapshot(out.replayed, out.merged)

\* The merge overwrote one field, kept another, and was replayed.
C7_Witness ==
    /\ pc = "replay"
    /\ Keys(out.changes.update) # <<>>
    /\ Keys(out.changes.update) # Keys(inp.a)
    /\ \E field \in Fields :
        /\ HasField(out.changes.history, field)
        /\ HasField(out.changes.update, field)
    /\ out.replayed = out.merged

----------------------------------------------------------------------------
(* Properties of the replicas *)

\* Both replicas have applied the same delta graphs (in whatever order and
\* however often each).
SameDeltasApplied == applied["r1"] = applied["r2"]

\* Two delta graphs carry, for one field of one node, different values at the
\* same state.
Conflicting(d1, d2) ==
    \E uid \in DOMAIN d1 \cap DOMAIN d2, field \in Fields :
        /\ HasField(d1[uid], field) /\ HasField(d2[uid], field)
        /\ state(d1[uid], field) = state(d2[uid], field)
        /\ value(d1[uid], field) # value(d2[uid], field)

\* C1: two replicas that started empty and applied the same set of delta
\* graphs hold the same nodes and show equal snapshots for every uid and field.
C1_Convergence ==
    SameDeltasApplied =>
        /\ DOMAIN graphs["r1"] = DOMAIN graphs["r2"]
        /\ \A uid \in DOMAIN graphs["r1"] :
                SameSnapshot(graphs["r1"][uid], graphs["r2"][uid])

\* Both replicas have applied the same two conflicting deltas.
C1_Witness ==
    /\ SameDeltasApplied
    /\ \E d1 \in applied["r1"], d2 \in applied["r1"] : Conflicting(d1, d2)
    /\ \E uid \in DOMAIN graphs["r1"] : DOMAIN graphs["r1"][uid].obj # {}

\* C2: two replicas that applied the same set of delta graphs hold, for every
\* uid and field, the same complete metadata record: value, state and every
\* additional key.
C2_SameMetadata ==
    SameDeltasApplied => graphs["r1"] = graphs["r2"]

\* C6: no call ever lowers the state of a field, and no node or field is lost.
C6_MonotoneClocks ==
    [][\A r \in Replicas : \A uid \in DOMAIN graphs[r] : \A field \in Fields :
            /\ HasNode(graphs'[r], uid)
            /\ state(graphs'[r][uid], field) >= state(graphs[r][uid], field)]_vars

\* A replica holds a field at a state above 1 and has also applied a delta
\* that is older for that field.
C6_Witness ==
    \E r \in Replicas : \E d \in applied[r] : \E uid \in DOMAIN d : \E field \in Fields :
        /\ HasField(d[uid], field)
        /\ HasNode(graphs[r], uid)
        /\ state(d[uid], field) < state(graphs[r][uid], field)

\* C38: whatever a replica does next (Graph.merge of a delta graph, a
\* setMetadata or a Node.merge of a plain mapping on one of its nodes), every
\* uid its graph held is still held and every field a node held is still a
\* field of that node.
C38_NoDeletion ==
    [][\A r \in Replicas :
            /\ DOMAIN graphs[r] \subseteq DOMAIN graphs'[r]
            /\ \A uid \in DOMAIN graphs[r] :
                    DOMAIN graphs[r][uid].obj \subseteq DOMAIN graphs'[r][uid].obj]_vars

\* A replica holds both nodes, one of them with both fields, has applied a
\* delta graph that names one node only, and has just written a field.
C38_Witness ==
    /\ pc \in {"setMetadata", "Node.merge"}
    /\ \E r \in Replicas :
            /\ DOMAIN graphs[r] = Uids
            /\ \E uid \in Uids : DOMAIN graphs[r][uid].obj = Fields
            /\ \E d \in applied[r] : DOMAIN d # Uids

----------------------------------------------------------------------------
(* Properties of Entity.delta and of one Node.merge *)

\* The fields of the incoming node whose state is above, below or equal to
\* the receiver's.
NewerFields(n, a) == {k \in DOMAIN a.obj : state(a, k) > state(n, k)}

StaleFields(n, a) == {k \in DOMAIN a.obj : state(a, k) < state(n, k)}

TiedFields(n, a) == {k \in DOMAIN a.obj : state(a, k) = state(n, k)}

\* The tied fields on which the resolver picks the incoming record.
LostFields(n, a) == {k \in TiedFields(n, a) : ~firstWins(meta(n, k), meta(a, k))}

\* The delta node holds the record m under k.
Holds(node, k, m) == HasField(node, k) /\ meta(node, k) = m

\* C11: after n.delta(a), every field of a whose state is above n's is in
\* the update delta with a's metadata, and is in the history delta, with n's
\* metadata, exactly when n's state for it is above 0.
C11_DeltaNewer ==
    pc = "delta" =>
        \A k \in NewerFields(inp.n, inp.a) :
            /\ Holds(out.changes.update, k, meta(inp.a, k))
            /\ HasField(out.changes.history, k) <=> state(inp.n, k) > 0
            /\ state(inp.n, k) > 0 => Holds(out.changes.history, k, meta(inp.n, k))

\* One newer field overwrites a record of the receiver, another is new to it.
C11_Witness ==
    /\ pc = "delta"
    /\ \E k, l \in NewerFields(inp.n, inp.a) :
            /\ state(inp.n, k) > 0 /\ state(inp.n, l) = 0
            /\ Holds(out.changes.history, k, meta(inp.n, k))
            /\ ~HasField(out.changes.history, l)

\* C12: after n.delta(a) and after n.merge(a), every field of a whose state
\* is below n's is unchanged in n, is absent from the update delta and is in
\* the history delta with a's metadata.
C12_StaleUpdate ==
    pc \in {"delta", "merge"} =>
        \A k \in StaleFields(inp.n, inp.a) :
            /\ Holds(out.self, k, meta(inp.n, k))
            /\ ~HasField(out.changes.update, k)
            /\ Holds(out.changes.history, k, meta(inp.a, k))

\* A merge in which one field is stale and carries another value than the
\* receiver's, while another field is applied.
C12_Witness ==
    /\ pc = "merge"
    /\ \E k \in StaleFields(inp.n, inp.a) : value(inp.a, k) # value(inp.n, k)
    /\ NewerFields(inp.n, inp.a) # {}

\* C13: after n.delta(a) and after n.merge(a), a field with equal states on
\* which the resolver picks a's record is in the update delta with a's
\* metadata and in the history delta with n's previous metadata; a field
\* with equal states on which the resolver picks n's record is in neither
\* delta and is unchanged in n.
C13_EqualStates ==
    pc \in {"delta", "merge"} =>
        \A k \in TiedFields(inp.n, inp.a) :
            IF k \in LostFields(inp.n, inp.a)
            THEN /\ Holds(out.changes.update, k, meta(inp.a, k))
                 /\ Holds(out.changes.history, k, meta(inp.n, k))
            ELSE /\ ~HasField(out.changes.update, k)
                 /\ ~HasField(out.changes.history, k)
                 /\ Holds(out.self, k, meta(inp.n, k))

\* A delta in which the receiver loses one tie and wins another against a
\* different value.
C13_Witness ==
    /\ pc = "delta"
    /\ LostFields(inp.n, inp.a) # {}
    /\ \E k \in TiedFields(inp.n, inp.a) \ LostFields(inp.n, inp.a) :
            value(inp.a, k) # value(inp.n, k)

\* C14: n.delta(a) leaves n and a as they were and emits no event.
C14_DeltaPure ==
    pc = "delta" =>
        /\ out.self = inp.n
        /\ out.update = inp.a
        /\ out.emitted = <<>>

\* A delta whose update and history both have fields.
C14_Witness ==
    /\ pc = "delta"
    /\ DOMAIN out.changes.update.obj # {}
    /\ DOMAIN out.changes.history.obj # {}

ConflictEvents(emitted) == SelectSeq(emitted, LAMBDA e : e.name = "conflict")

\* The `conflict` events n.merge(a) is to emit: one for each lost field, in
\* the order of a's iterator, with a's record and then n's.
ExpectedConflicts(n, a) ==
    LET lost == SelectSeq(Keys(a), LAMBDA k : k \in LostFields(n, a))
    IN  [i \in 1..Len(lost) |-> Event("conflict", <<meta(a, lost[i]), meta(n, lost[i])>>)]

\* C16: n.merge(a) emits one `conflict` event for each field whose states are
\* equal and on which the resolver picks a's record, with the arguments
\* (a's metadata, n's previous metadata), and no other `conflict` event.
C16_ConflictEvent ==
    pc = "merge" => ConflictEvents(out.emitted) = ExpectedConflicts(inp.n, inp.a)

\* A merge that emits `conflict` for one field and not for another field the
\* incoming node also carries.
C16_Witness ==
    /\ pc = "merge"
    /\ Len(ConflictEvents(out.emitted)) = 1
    /\ Cardinality(DOMAIN inp.a.obj) = 2

\* The events of a log that carry the given name.
Named(emitted, name) == SelectSeq(emitted, LAMBDA e : e.name = name)

\* C17: n.merge(a) emits `history` once, with the returned history delta,
\* when that delta has a field and not otherwise; it emits `update` once,
\* with the returned update delta, when that delta has a field and not
\* otherwise.
C17_NodeDeltaEvents ==
    pc = "merge" =>
        /\ Named(out.emitted, "history") =
                IF DOMAIN out.changes.history.obj # {}
                THEN <<Event("history", <<out.changes.history>>)>>
                ELSE <<>>
        /\ Named(out.emitted, "update") =
                IF DOMAIN out.changes.update.obj # {}
                THEN <<Event("update", <<out.changes.update>>)>>
                ELSE <<>>

\* A merge that emits `history` and no `update`.
C17_Witness ==
    /\ pc = "merge"
    /\ Len(Named(out.emitted, "history")) = 1
    /\ Named(out.emitted, "update") = <<>>

C26_NodeRebase ==
    pc = "rebase" =>
        /\ out.rebased.uid = inp.n.uid
        /\ DOMAIN out.rebased.obj = DOMAIN inp.n.obj \cup DOMAIN out.target.obj
        /\ \A k \in DOMAIN inp.n.obj :
                Holds(out.rebased, k,
                      [meta(inp.n, k) EXCEPT !.state =
                            IF state(out.target, k) >= state(inp.n, k)
                            THEN state(out.target, k) + 1
                            ELSE state(inp.n, k)])
        /\ \A k \in DOMAIN out.target.obj \ DOMAIN inp.n.obj :
                Holds(out.rebased, k, meta(out.target, k))

\* A rebase onto a target with another uid that holds one field of n at a
\* higher state and a field n does not have.
C26_Witness ==
    /\ pc = "rebase"
    /\ out.target.uid # inp.n.uid
    /\ \E k \in DOMAIN inp.n.obj :
            /\ state(out.target, k) > state(inp.n, k)
            /\ value(out.target, k) # value(inp.n, k)
            /\ value(out.rebased, k) = value(inp.n, k)
    /\ DOMAIN out.target.obj \ DOMAIN inp.n.obj # {}

\* C27: when n and the target have the same uid, merging n.rebase(target)
\* into a copy of the target leaves the copy with n's value for every field
\* of n.
C27_RebaseWins ==
    pc = "rebase" /\ out.target.uid = inp.n.uid =>
        \A k \in DOMAIN inp.n.obj :
            HasField(out.merged, k) /\ value(out.merged, k) = value(inp.n, k)

\* The target holds a field at n's state with the value that wins the
\* resolver against n's, and the merged copy holds n's value.
C27_Witness ==
    /\ pc = "rebase"
    /\ out.target.uid = inp.n.uid
    /\ \E k \in TiedFields(out.target, inp.n) :
            /\ firstWins(meta(out.target, k), meta(inp.n, k))
            /\ value(out.target, k) # value(inp.n, k)
            /\ value(out.merged, k) = value(inp.n, k)

\* C28: n.overlap(target) has n's uid and exactly the fields that n and the
\* target both have, each with n's metadata; it is n itself when the target
\* is n.
C28_NodeOverlap ==
    pc = "overlap" =>
        /\ out.shared.uid = inp.n.uid
        /\ DOMAIN out.shared.obj = DOMAIN inp.n.obj \cap DOMAIN out.target.obj
        /\ \A k \in DOMAIN out.shared.obj : meta(out.shared, k) = meta(inp.n, k)
        /\ out.target = inp.n => out.shared = inp.n

\* An overlap with a target of another uid that shares one field, at
\* different metadata, and lacks another.
C28_Witness ==
    /\ pc = "overlap"
    /\ out.target.uid # inp.n.uid
    /\ \E k \in DOMAIN out.shared.obj : meta(out.target, k) # meta(inp.n, k)
    /\ DOMAIN inp.n.obj \ DOMAIN out.target.obj # {}

\* C32: after n.merge(a), and after n.delta(a), every field of the update
\* delta and every field of the history delta is a field of a, and the update
\* delta holds, for each of its fields, a's metadata for that field.
C32_DeltaWithinIncoming ==
    pc \in {"merge", "delta"} =>
        /\ DOMAIN out.changes.update.obj \subseteq DOMAIN inp.a.obj
        /\ DOMAIN out.changes.history.obj \subseteq DOMAIN inp.a.obj
        /\ \A k \in DOMAIN out.changes.update.obj :
                meta(out.changes.update, k) = meta(inp.a, k)

\* A merge of a node with one field into a receiver with two: the field
\* overwrites another record, which goes to the history delta, and the
\* receiver's other field is in neither delta.
C32_Witness ==
    /\ pc = "merge"
    /\ DOMAIN inp.n.obj = Fields
    /\ \E k \in Fields :
            /\ DOMAIN inp.a.obj = {k}
            /\ Holds(out.changes.update, k, meta(inp.a, k))
            /\ Holds(out.changes.history, k, meta(inp.n, k))
            /\ meta(inp.n, k) # meta(inp.a, k)

\* C36: after n.merge(a), every field of a was compared on its own: a field
\* whose state is above n's, or equal with the resolver picking a's record,
\* holds a's metadata in n, whatever the outcome for the fields visited
\* before it, and any other field of a holds n's metadata as before.
C36_EveryFieldMerged ==
    pc = "merge" =>
        \A k \in DOMAIN inp.a.obj :
            IF k \in NewerFields(inp.n, inp.a) \cup LostFields(inp.n, inp.a)
            THEN Holds(out.self, k, meta(inp.a, k))
            ELSE Holds(out.self, k, meta(inp.n, k))

\* The receiver wins an equal-state conflict on the first field visited, and
\* the second field is then applied.
C36_Witness ==
    /\ pc = "merge"
    /\ Keys(inp.a) = FieldOrder
    /\ FieldOrder[1] \in TiedFields(inp.n, inp.a) \ LostFields(inp.n, inp.a)
    /\ FieldOrder[2] \in NewerFields(inp.n, inp.a) \cup LostFields(inp.n, inp.a)
    /\ ~Holds(inp.n, FieldOrder[2], meta(inp.a, FieldOrder[2]))
    /\ Holds(out.self, FieldOrder[2], meta(inp.a, FieldOrder[2]))

\* C39: n.merge(a) and n.delta(a) end without an error for every receiver
\* and every incoming node whose states are non-negative integers, a node
\* with a field at state 0 that the receiver does not have included.
C39_MergeTotal ==
    /\ pc \in {"merge", "delta"} => out.error = "none"
    /\ pc = "wire" => out.merged.error = "none" /\ out.delta.error = "none"

\* C21: when n.merge(a) has to resolve a conflict on a field for which a
\* carries a number that is not finite, the call ends with an error and n is
\* as it was before the call.
C21_InvalidValueRejected ==
    pc = "merge" =>
        \A k \in TiedFields(inp.n, inp.a) :
            value(inp.a, k).t = "nonfinite" =>
                out.error # "none" /\ out.self = inp.n

\* C20: when n.merge(a) ends with an error, n is as it was before the call
\* or holds every field of the update delta of a against n.
C20_AtomicMerge ==
    pc = "listening" /\ out.result.error # "none" =>
        \/ out.result.self = inp.n
        \/ \A k \in DOMAIN delta(inp.n, inp.a).changes.update.obj :
                Holds(out.result.self, k, meta(inp.a, k))

----------------------------------------------------------------------------
(* Properties of the events of Graph.merge *)

\* The entries of a log that one emitter emitted under one name.
EmittedAs(emitted, emitter, name) ==
    SelectSeq(emitted, LAMBDA e : e.by = emitter /\ e.name = name)

InOrder(emitted, emitter, early, late) ==
    \A i, j \in 1..Len(emitted) :
        /\ emitted[i].by = emitter /\ emitted[j].by = emitter
        /\ emitted[i].name = late /\ emitted[j].name = early
        => j < i

\* C19: in the log of one g.merge(h), every node emits `history` before
\* `update`, the graph emits `update` before `history`, and the log is
\* complete when the call returns: the graph's two events close it, after
\* those of the nodes.
C19_EventOrder ==
    pc = "merged" =>
        /\ \A uid \in Uids : InOrder(out.emitted, uid, "history", "update")
        /\ InOrder(out.emitted, "graph", "update", "history")
        /\ Len(out.emitted) >= 2
        /\ out.emitted[Len(out.emitted) - 1].by = "graph"
        /\ out.emitted[Len(out.emitted)].by = "graph"
        /\ \A i \in 1..(Len(out.emitted) - 2) : out.emitted[i].by \in Uids

\* A merge in which a node emits both `history` and `update`.
C19_Witness ==
    /\ pc = "merged"
    /\ \E uid \in Uids :
            /\ EmittedAs(out.emitted, uid, "history") # <<>>
            /\ EmittedAs(out.emitted, uid, "update") # <<>>

----------------------------------------------------------------------------
(* Properties of the graphs Graph.merge, rebase and overlap build *)

\* C22: after g.merge(h), g has a node under the uid of every member of h;
\* for a uid g did not know whose member has no field, that node is an empty
\* node with the uid.
C22_GraphMembership ==
    pc = "merged" =>
        \A key \in DOMAIN inp.h :
            LET uid == inp.h[key].uid
            IN  /\ HasNode(out.self, uid)
                /\ out.self[uid].uid = uid
                /\ ~HasNode(inp.g, uid) /\ DOMAIN source(inp.h)[uid].obj = {}
                    => out.self[uid] = NewNode(uid)

\* A merge of a graph whose only member is an empty node unknown to the
\* receiver, which holds another node.
C22_Witness ==
    /\ pc = "merged"
    /\ inp.g # NewGraph
    /\ \E uid \in DOMAIN inp.h :
            /\ inp.h[uid] = NewNode(uid)
            /\ ~HasNode(inp.g, uid)
            /\ HasNode(out.self, uid)

\* Every entry of the graph is filed under the uid of its node.
KeyedByUid(graph) == \A key \in DOMAIN graph : graph[key].uid = key

\* C23: the graph Graph.source builds, the receiver and both delta graphs
\* after a merge, and the graphs rebase and overlap return all file every
\* node under the uid of its own metadata.
C23_GraphKeys ==
    /\ KeyedByUid(source(inp.h))
    /\ pc = "merged" =>
            /\ KeyedByUid(out.self)
            /\ KeyedByUid(out.changes.update)
            /\ KeyedByUid(out.changes.history)
    /\ pc = "rebased" => KeyedByUid(out.rebased)
    /\ pc = "overlapped" => KeyedByUid(out.shared)

\* A merge of a plain object that files a node under another key than its
\* uid: the receiver holds it under the uid.
C23_Witness ==
    /\ pc = "merged"
    /\ \E key \in DOMAIN inp.h :
            /\ inp.h[key].uid # key
            /\ ~HasNode(inp.g, inp.h[key].uid)
            /\ HasNode(out.self, inp.h[key].uid)
            /\ HasNode(out.changes.update, inp.h[key].uid)

\* C29: g.rebase(t) holds every uid of g and of t: a node of t alone as t
\* has it, a node of g alone as g has it, and a node of both as the rebase
\* of g's node onto t's.
C29_GraphRebase ==
    pc = "rebased" =>
        /\ DOMAIN out.rebased = DOMAIN inp.g \cup DOMAIN out.target
        /\ \A uid \in DOMAIN out.target \ DOMAIN inp.g :
                out.rebased[uid] = out.target[uid]
        /\ \A uid \in DOMAIN inp.g \ DOMAIN out.target :
                out.rebased[uid] = inp.g[uid]
        /\ \A uid \in DOMAIN inp.g \cap DOMAIN out.target :
                out.rebased[uid] = rebase(inp.g[uid], out.target[uid])

\* A rebase in which a node of both graphs is bumped above a field the
\* target holds with another value, and the target has a node of its own.
C29_Witness ==
    /\ pc = "rebased"
    /\ DOMAIN out.target \ DOMAIN inp.g # {}
    /\ \E uid \in DOMAIN inp.g \cap DOMAIN out.target :
        \E k \in DOMAIN inp.g[uid].obj :
            /\ state(out.target[uid], k) >= state(inp.g[uid], k)
            /\ value(out.target[uid], k) # value(inp.g[uid], k)
            /\ state(out.rebased[uid], k) = state(out.target[uid], k) + 1

\* C30: g.overlap(t) holds exactly the uids of both g and t, and each node
\* holds exactly the fields both nodes have, with g's value and state.
C30_GraphOverlap ==
    pc = "overlapped" =>
        /\ DOMAIN out.shared = DOMAIN inp.g \cap DOMAIN out.target
        /\ \A uid \in DOMAIN out.shared :
                /\ DOMAIN out.shared[uid].obj =
                        DOMAIN inp.g[uid].obj \cap DOMAIN out.target[uid].obj
                /\ \A k \in DOMAIN out.shared[uid].obj :
                        meta(out.shared[uid], k) = meta(inp.g[uid], k)

\* An overlap that leaves out a node of g, and keeps a node whose shared
\* field has another record in the target.
C30_Witness ==
    /\ pc = "overlapped"
    /\ DOMAIN inp.g \ DOMAIN out.target # {}
    /\ \E uid \in DOMAIN out.shared : \E k \in DOMAIN out.shared[uid].obj :
            meta(out.target[uid], k) # meta(inp.g[uid], k)

\* The member `uid` of the incoming graph merged into the receiver's node.
MemberMerged(uid) ==
    merge(IF HasNode(inp.g, uid) THEN inp.g[uid] ELSE NewNode(uid),
          source(inp.h)[uid]).self

\* C35: during g.merge(h), the listeners of a member node's `history` and
\* `update` events find that node holding every field of its update delta,
\* and the listeners of the graph's `update` and `history` events find every
\* member of h merged into g.
C35_ListenersSeeMerged ==
    pc = "merged" =>
        \A i \in 1..Len(out.emitted) :
            IF out.emitted[i].by = "graph"
            THEN \A uid \in DOMAIN source(inp.h) :
                    /\ HasNode(out.seen[i], uid)
                    /\ out.seen[i][uid] = MemberMerged(uid)
            ELSE out.emitted[i].name \in {"history", "update"} =>
                    \A k \in DOMAIN out.changes.update[out.emitted[i].by].obj :
                        Holds(out.seen[i][out.emitted[i].by], k,
                              meta(out.changes.update[out.emitted[i].by], k))

\* A merge of two members in which a node emits `history` and `update` for a
\* field it overwrites.
C35_Witness ==
    /\ pc = "merged"
    /\ Cardinality(DOMAIN source(inp.h)) = 2
    /\ \E i, j \in 1..Len(out.emitted) :
            /\ out.emitted[i].by = out.emitted[j].by
            /\ out.emitted[i].by # "graph"
            /\ out.emitted[i].name = "history" /\ out.emitted[j].name = "update"
            /\ out.seen[i] # inp.g

----------------------------------------------------------------------------
(* Properties of the node objects a graph keeps *)

\* C24: every node object passed to Graph.merge is as it was when it was
\* passed, whatever was merged into the graph since, and is not the object
\* the graph keeps.
C24_IncomingKept ==
    \A p \in heap.passed :
        /\ heap.node[p.ref] = p.was
        /\ \A uid \in DOMAIN heap.graph : heap.graph[uid] # p.ref

\* An object was passed for a uid the graph did not know, and a later merge
\* changed the node the graph keeps under that uid.
C24_Witness ==
    \E p \in heap.passed :
        /\ DOMAIN p.was.obj # {}
        /\ heap.graph[p.was.uid] = p.ref + 1
        /\ heap.node[heap.graph[p.was.uid]] # p.was

----------------------------------------------------------------------------
(* Properties of a node under a sequence of calls *)

C34_UidStable ==
    /\ out.self.uid = "u1"
    /\ \A m \in out.made \cup {new(out.self)} : m.uid = "u1"

\* The node took a field from a node with another uid.
C34_Witness ==
    /\ pc = "Node.merge"
    /\ out.made # {}
    /\ \E incoming \in SeqNodes :
            /\ incoming.uid # out.self.uid
            /\ \E k \in DOMAIN incoming.obj : Holds(out.self, k, meta(incoming, k))

\* The record u is above the record c: at a higher state, or at the same
\* state with the greater string.
AboveAsWritten(u, c) ==
    \/ u.state > c.state
    \/ u.state = c.state /\ LexGreater(JSONstringify(u.value), JSONstringify(c.value))

AboveCanonical(u, c) ==
    \/ u.state > c.state
    \/ u.state = c.state /\ LexGreater(CanonicalString(u.value), CanonicalString(c.value))

\* Every field of the node holds a record that was merged in, and none of
\* the records merged in for the field is above it.
HoldsMaximal(Above(_, _)) ==
    /\ \A k \in DOMAIN out.self.obj :
            \E a \in applied : Holds(a, k, meta(out.self, k))
    /\ \A a \in applied : \A k \in DOMAIN a.obj :
            /\ HasField(out.self, k)
            /\ ~Above(meta(a, k), meta(out.self, k))

----------------------------------------------------------------------------
(* Properties of the echo between two replicas *)

\* No graph in flight has a field.
Quiet == \A r \in Replicas : \A i \in 1..Len(inp[r]) : ~HasFields(inp[r][i].graph)

\* C40: the update graph emitted by the second merge after a local write,
\* and by every later one, has no field; merging a graph without fields
\* changes neither replica; and in the end no graph in flight has a field,
\* for good.
C40_EchoDiesOut ==
    /\ [](\A r \in Replicas : \A i \in 1..Len(inp[r]) :
            inp[r][i].hops >= 2 => ~HasFields(inp[r][i].graph))
    /\ [][Quiet /\ out'.writes = out.writes => graphs' = graphs /\ Quiet']_vars
    /\ <>[]Quiet

\* A merge has emitted an update graph with a field, and the graphs now in
\* flight, two merges or more after their write, have none.
C40_Witness ==
    /\ out.echoed
    /\ Quiet
    /\ \E r \in Replicas : \E i \in 1..Len(inp[r]) : inp[r][i].hops >= 2
    /\ graphs["r1"] # graphs["r2"]

----------------------------------------------------------------------------
(* Properties of rebase and overlap on objects *)

\* The fields of the receiver that rebase bumps.
BumpedKeys(h, self, target) ==
    {k \in DOMAIN h.node[self].obj : ShouldBump(NodeAt(h, self), NodeAt(h, target), k)}

\* C31: Node.rebase, Node.overlap, Graph.rebase and Graph.overlap return an
\* object that is neither the receiver nor the target; no metadata object,
\* Node object or Graph object that existed before the call is written to,
\* so the receiver and the target keep every field, state and value; and
\* each field that rebase bumps holds, in the node returned, a metadata
\* object made by the call.
C31_NonDestructive ==
    pc # "start" =>
        /\ out.result \notin {out.self, out.target}
        /\ \A i \in 1..Len(out.before.rec) : heap.rec[i] = out.before.rec[i]
        /\ \A i \in 1..Len(out.before.node) : heap.node[i] = out.before.node[i]
        /\ \A i \in 1..Len(out.before.graph) : heap.graph[i] = out.before.graph[i]
        /\ pc = "Node.rebase" =>
                \A k \in BumpedKeys(out.before, out.self, out.target) :
                    heap.node[out.result].obj[k] > Len(out.before.rec)
        /\ pc = "Graph.rebase" =>
                \A id \in DOMAIN heap.graph[out.self] \cap DOMAIN heap.graph[out.target] :
                    /\ heap.graph[out.result][id] > Len(out.before.node)
                    /\ \A k \in BumpedKeys(out.before, heap.graph[out.self][id],
                                              heap.graph[out.target][id]) :
                            heap.node[heap.graph[out.result][id]].obj[k] > Len(out.before.rec)

\* A rebase of a node onto a newer target: the node returned is the one the
\* call computes on values, it took the target's metadata object for a field
\* in its first merge, and holds another one after the bump.
C31_Witness ==
    /\ pc = "Node.rebase"
    /\ NodeAt(heap, out.result) = rebase(inp.n, inp.a)
    /\ \E k \in BumpedKeys(out.before, out.self, out.target) :
            /\ state(inp.a, k) > state(inp.n, k)
            /\ heap.rec[heap.node[out.result].obj[k]] # heap.rec[heap.node[out.target].obj[k]]

====
